---- MODULE Spec2Model ----
(***************************************************************************)
(* ByteCave Desktop (bytenode): the Electron main process.                 *)
(*                                                                         *)
(* Specifications over one set of variables:                               *)
(*   SpecProc        child-process lifecycle (startNode / stopNode)        *)
(*   SpecProcFair    the same, with pending events and timers delivered    *)
(*   SpecQuit        the same, with the application quitting              *)
(*   SpecPolicy      blocked-content policy handlers (policy:...)          *)
(*   SpecOverlap     overlapping block-cid / block-peer handlers only      *)
(*   SpecSequential  policy handlers, one at a time, within one run        *)
(*   SpecRestart     policy handlers, one at a time, across restarts       *)
(*   SpecConfig      node configuration of src/main/index.ts               *)
(*   SpecConfigJson  node configuration of the config.json-backed main     *)
(*   SpecBridge      node:status, node:peers, peer:connect, node:deregister *)
(*   SpecReset       node:reset of the config.json-backed main              *)
(*   SpecGuild       guild handlers of the Node Policy tab                 *)
(*   SpecTab         content-type checkboxes and guild mode of the tab     *)
(*   SpecFilter      policy filter over the stored policy records          *)
(*   SpecGC          garbage collector of the spawned storage node         *)
(*   SpecRepl        replication manager of the spawned storage node       *)
(*   SpecPut         content store put behind the shard router             *)
(* Each specification leaves the other groups of variables untouched.      *)
(***************************************************************************)
EXTENDS Integers, Sequences, FiniteSets, Bags, TLC

(***************************************************************************)
(* Bounds                                                                  *)
(***************************************************************************)
MaxChildren == 3        \* children spawned in one behaviour
MaxStops    == 2        \* stopNode calls that may target one child
MaxLaunch   == 1        \* application restarts in one behaviour
MaxClock    == 1        \* largest value Date.now() takes
MaxCalls    == 2        \* IPC handlers that may be suspended at an await at once
MaxList     == 3        \* longest blocked list
MaxDepth    == 2        \* path components of a data directory below ~/.bytecave
MaxSets     == 3        \* config:set calls in one behaviour
MaxBridgeSpawns == 1    \* children whose lifecycle the status bridge is checked over
MaxFairSpawns == 2      \* children whose lifecycle is checked under fair delivery
NumPeers    == 5        \* peers known to the storage node
MaxRetries  == 2        \* retries of a failed replication push within one sweep
MaxSweeps   == 2        \* replication sweeps in one behaviour
MaxCoreClock == 2       \* ticks of the storage node's clock

(***************************************************************************)
(* Process lifecycle state (src/main/index.ts)                             *)
(***************************************************************************)
VARIABLES
  nodeProcess,     \* 0 = null, otherwise the id of the ChildProcess handle held
  nodeRunning,     \* let nodeRunning = false
  child,           \* id -> OS state of the spawned child
  readyQueued,     \* id -> a stdout chunk with the ready message awaits delivery
  exitOnce,        \* id -> stopNode exit handlers registered with once('exit')
  killTimers,      \* id -> armed 3 s force-kill timers whose closure captured this child
  startRet         \* what the last startNode call did

procVars == <<nodeProcess, nodeRunning, child, readyQueued, exitOnce, killTimers, startRet>>

(***************************************************************************)
(* Environment, electron-store and the files under the data directory      *)
(***************************************************************************)
VARIABLES
  env,             \* process.env: [multi: BYTENODE_PORT is set, nodeId: BYTENODE_NODE_ID or << >>]
  launch,          \* number of this application launch; stands for Date.now() at module load
  clock,           \* Date.now()
  store,           \* electron-store: the value saved under 'nodeConfig' ({} when never saved)
  cfgJson,         \* dataDir -> <dataDir>/config.json, for the directories where it exists
  blockedJson,     \* dataDir -> <dataDir>/config/blocked-content.json, where it exists
  calls,           \* slot -> an IPC handler invocation suspended before its writeFile
  ret,             \* the value most recently returned by a policy handler
  acked            \* what callers were told: entries whose block call returned success
                   \* (not unblocked since), settings whose config:set returned (not
                   \* set again since), and the number of config:set calls made

dataVars == <<env, launch, clock, store, cfgJson, blockedJson, calls, ret, acked>>

(***************************************************************************)
(* Guild policy: the Node Policy tab of the window and guilds.json         *)
(***************************************************************************)
VARIABLES
  guildConfig,     \* useState<GuildConfig>: [allowedGuilds, blockedGuilds]
  guildMode,       \* useState<'all' | 'allowlist' | 'blocklist'>
  guildsJson,      \* dataDir -> <dataDir>/config/guilds.json, where it exists
  contentTypes     \* config.contentTypes of the tab's config prop: [set, str], str the
                   \* string as its sequence of tokens (set = FALSE: undefined)

guildVars == <<guildConfig, guildMode, guildsJson, contentTypes>>

(***************************************************************************)
(* The storage node (bytecave-core) this application spawns: its content   *)
(* store, garbage collector and replication manager, as the design         *)
(* document describes them                                                 *)
(***************************************************************************)
VARIABLES
  gcConfig,        \* [mode, maxStorage, reserved]: the GC settings the node was started with
  stored,          \* the blobs the content store holds
  pinned,          \* the blobs whose pin flag is set
  aged,            \* the blobs older than the max-age threshold
  replicaSet,      \* blob -> peers the metadata record lists as holding a copy
  live,            \* blob -> peers a probe sent now would find holding a copy
  gcRunning,       \* a GC cycle is under way
  gcQueue,         \* the eviction candidates the cycle has not looked at yet
  tickets,         \* the replication tickets in flight, a bag of [cid, peer, attempt, deadline]
  tried,           \* blob -> peers a push of this sweep failed against
  retries,         \* blob -> failed pushes of this sweep
  degraded,        \* the blobs marked Degraded in this sweep
  unresponsive,    \* the peers that do not answer a push
  sweep,           \* number of replication sweeps started
  coreClock,       \* the storage node's clock, in units of the replication timeout
  nodeShards,      \* NODE_SHARDS: the shard ranges the node was started with
  putRet           \* what the last put of the content store answered

gcVars == <<gcConfig, stored, pinned, aged, replicaSet, live, gcRunning, gcQueue>>

replVars == <<tickets, tried, retries, degraded, unresponsive, sweep, coreClock>>

storeVars == <<nodeShards, putRet>>

coreVars == <<gcVars, replVars, storeVars>>

extVars == <<guildVars, coreVars>>

vars == <<nodeProcess, nodeRunning, child, readyQueued, exitOnce, killTimers, startRet,
          env, launch, clock, store, cfgJson, blockedJson, calls, ret, acked,
          guildConfig, guildMode, guildsJson, contentTypes,
          gcConfig, stored, pinned, aged, replicaSet, live, gcRunning, gcQueue,
          tickets, tried, retries, degraded, unresponsive, sweep, coreClock,
          nodeShards, putRet>>

Children == 1..MaxChildren

\* OS states of a child: not spawned yet; spawn failed ('error' pending, never
\* ran); running; terminated with 'exit' not yet emitted; all events delivered.
\* "failed" is a child whose spawn failed and whose 'error' was delivered.
ChildStates == {"unborn", "spawnfail", "failed", "alive", "exited", "gone"}

\* nodeProcess.pid is undefined when the spawn failed
HasPid(i) == child[i] \in {"alive", "exited", "gone"}

Alive == {i \in Children : child[i] = "alive"}

NextChild == CHOOSE i \in Children : child[i] = "unborn" /\ \A j \in Children : child[j] = "unborn" => i <= j


(***************************************************************************)
(* Values.  Identifiers and paths are sequences so that they stay          *)
(* comparable: a node id is a sequence of name parts, a data directory is  *)
(* the sequence of path components below ~/.bytecave.                      *)
(***************************************************************************)
Slots == 1..MaxCalls

\* {...a, ...b}
Merge(a, b) == [k \in DOMAIN a \cup DOMAIN b |-> IF k \in DOMAIN b THEN b[k] ELSE a[k]]

\* fs.writeFile(path, content)
WriteFile(files, dir, content) ==
  [d \in DOMAIN files \cup {dir} |-> IF d = dir THEN content ELSE files[d]]

Range(seq) == {seq[i] : i \in 1..Len(seq)}

\* const envNodeId = process.env.BYTENODE_NODE_ID || `bytecave-${Date.now()}`
envNodeId == IF env.nodeId # <<>> THEN env.nodeId ELSE <<"bytecave", launch>>

\* const envPort = process.env.BYTENODE_PORT ? parseInt(...) : 5001
envPort == IF env.multi THEN 5002 ELSE 5001

\* path.join(os.homedir(), '.bytecave', envNodeId); BYTENODE_DATA_DIR is unset
envDataDir == <<envNodeId>>

defaultConfig ==
  [nodeId |-> envNodeId, dataDir |-> envDataDir, port |-> envPort,
   p2pEnabled |-> TRUE, maxStorageMB |-> 1024, shardCount |-> 1024]

\* the truthiness of a value stored under key k
Truthy(k, v) ==
  CASE k \in {"port", "maxStorageMB", "shardCount"} -> v # 0
    [] k \in {"contentTypes", "ownerAddress"} -> v # ""
    [] k = "nodeId" -> v # <<>>
    [] OTHER -> TRUE

\* the settings getConfig copies from config.json: if (persistedConfig.k) ...
LoadedKeys == {"ownerAddress", "contentTypes", "maxStorageMB", "port", "nodeId"}

\* Ensure dataDir includes nodeId subfolder
WithNodeIdFolder(dataDir, nodeId) ==
  IF Len(dataDir) > 0 /\ dataDir[Len(dataDir)] = nodeId
  THEN dataDir
  ELSE Append(dataDir, nodeId)

\* getConfig() without the multi-instance early return: the stored
\* configuration and config.json are merged in every mode
getConfigOf_AlwaysMerge(st, files) ==
  LET merged == Merge(defaultConfig, st)
      dir    == WithNodeIdFolder(merged.dataDir, merged.nodeId)
      based  == [merged EXCEPT !.dataDir = dir]
  IN IF dir \in DOMAIN files /\ files[dir].ok
     THEN LET persisted == files[dir].data
              over == {k \in LoadedKeys \cap DOMAIN persisted : Truthy(k, persisted[k])}
          IN [k \in DOMAIN based \cup over |->
                IF k \in over THEN persisted[k] ELSE based[k]]
     ELSE based

\* getConfig() without the try/catch around JSON.parse: whatever the file
\* holds is read
getConfigOf_NoCatch(st, files) ==
  IF env.multi
  THEN defaultConfig
  ELSE LET merged == Merge(defaultConfig, st)
           dir    == WithNodeIdFolder(merged.dataDir, merged.nodeId)
           based  == [merged EXCEPT !.dataDir = dir]
       IN IF dir \in DOMAIN files
          THEN LET persisted == files[dir].data
                   over == {k \in LoadedKeys \cap DOMAIN persisted : Truthy(k, persisted[k])}
               IN [k \in DOMAIN based \cup over |->
                     IF k \in over THEN persisted[k] ELSE based[k]]
          ELSE based

\* getConfig() evaluated over given store and config.json contents
getConfigOf(st, files) ==
  IF env.multi
  THEN defaultConfig
  ELSE LET merged == Merge(defaultConfig, st)
           dir    == WithNodeIdFolder(merged.dataDir, merged.nodeId)
           based  == [merged EXCEPT !.dataDir = dir]
       IN IF dir \in DOMAIN files /\ files[dir].ok
          THEN LET persisted == files[dir].data
                   over == {k \in LoadedKeys \cap DOMAIN persisted : Truthy(k, persisted[k])}
               IN [k \in DOMAIN based \cup over |->
                     IF k \in over THEN persisted[k] ELSE based[k]]
          ELSE based

getConfig == getConfigOf(store, cfgJson)

\* the environment startNode hands to bytecave-core, from getConfig()
nodeEnv ==
  LET config == getConfig
  IN [NODE_ID |-> config.nodeId, DATA_DIR |-> config.dataDir, PORT |-> config.port,
      P2P_ENABLED |-> config.p2pEnabled, GC_MAX_STORAGE_MB |-> config.maxStorageMB,
      SHARD_COUNT |-> config.shardCount]

(***************************************************************************)
(* Blocked-content policy (policy:... handlers)                            *)
(***************************************************************************)
\* String.prototype.toLowerCase on the characters CIDs are made of
LowerChar(ch) ==
  CASE ch = "Q" -> "q"
    [] ch = "A" -> "a"
    [] ch = "B" -> "b"
    [] OTHER -> ch

toLowerCase(str) == [i \in 1..Len(str) |-> LowerChar(str[i])]

Cids == {<<"Q", "a">>, <<"q", "a">>}
MoreCids == Cids \cup {<<"q", "B">>}
PeerIds == {<<"P", "1">>, <<"p", "1">>}

Includes(list, x) == \E i \in 1..Len(list) : list[i] = x

\* Array.prototype.indexOf, 1-based; 0 when absent
IndexOf(list, x) ==
  IF Includes(list, x)
  THEN CHOOSE i \in 1..Len(list) : list[i] = x /\ \A j \in 1..(i - 1) : list[j] # x
  ELSE 0

\* list.splice(index, 1)
Splice(list, i) == [j \in 1..(Len(list) - 1) |-> IF j < i THEN list[j] ELSE list[j + 1]]

\* '{"version":1,"updatedAt":0,"cids":[],"peerIds":[]}'
EmptyBlocked == [version |-> 1, updatedAt |-> 0, cids |-> <<>>, peerIds |-> <<>>]

IdleCall == [pc |-> "idle", dir |-> <<>>, data |-> EmptyBlocked]

\* the invocation in slot s has returned; the slots list the invocations
\* still suspended, oldest first
EndCall(cs, s) ==
  [t \in Slots |-> IF t < s THEN cs[t]
                   ELSE IF t < MaxCalls THEN cs[t + 1]
                   ELSE IdleCall]

PolicyOps == {"block-cid", "unblock-cid", "block-peer", "unblock-peer"}

ArgsOf(op) == IF op \in {"block-cid", "unblock-cid"} THEN Cids ELSE PeerIds

\* a membership test that looks at the first element only
AlreadyBlocked_FirstOnly(list, entry) == Len(list) > 0 /\ list[1] = entry

\* whether a block handler finds its entry in the list it read
AlreadyBlocked(list, entry) == Includes(list, entry)

\* The synchronous part of a handler after its readFile: exists/content are
\* what the read found, now is Date.now().  Gives the outcome: failed (the
\* catch branch), or the record to write (write = TRUE), or nothing to write.
\* policy:block-cid that appends without refreshing updatedAt
policyBlockCid_StaleStamp(exists, content, cid, now) ==
  LET blocked == IF exists THEN content ELSE EmptyBlocked
      c == toLowerCase(cid)
  IN IF ~AlreadyBlocked(blocked.cids, c)
     THEN [failed |-> FALSE, write |-> TRUE,
           data |-> [blocked EXCEPT !.cids = Append(@, c)]]
     ELSE [failed |-> FALSE, write |-> FALSE, data |-> blocked]

policyBlockCid(exists, content, cid, now) ==
  LET blocked == IF exists THEN content ELSE EmptyBlocked
      c == toLowerCase(cid)
  IN IF ~AlreadyBlocked(blocked.cids, c)
     THEN [failed |-> FALSE, write |-> TRUE,
           data |-> [blocked EXCEPT !.cids = Append(@, c), !.updatedAt = now]]
     ELSE [failed |-> FALSE, write |-> FALSE, data |-> blocked]

\* policy:unblock-cid that looks for the CID as given
policyUnblockCid_Exact(exists, content, cid, now) ==
  IF ~exists
  THEN [failed |-> TRUE, write |-> FALSE, data |-> EmptyBlocked]
  ELSE LET index == IndexOf(content.cids, cid)
       IN IF index > 0
          THEN [failed |-> FALSE, write |-> TRUE,
                data |-> [content EXCEPT !.cids = Splice(@, index), !.updatedAt = now]]
          ELSE [failed |-> FALSE, write |-> FALSE, data |-> content]

policyUnblockCid(exists, content, cid, now) ==
  IF ~exists
  THEN [failed |-> TRUE, write |-> FALSE, data |-> EmptyBlocked]
  ELSE LET index == IndexOf(content.cids, toLowerCase(cid))
       IN IF index > 0
          THEN [failed |-> FALSE, write |-> TRUE,
                data |-> [content EXCEPT !.cids = Splice(@, index), !.updatedAt = now]]
          ELSE [failed |-> FALSE, write |-> FALSE, data |-> content]

policyBlockPeer(exists, content, peerId, now) ==
  LET blocked == IF exists THEN content ELSE EmptyBlocked
  IN IF ~AlreadyBlocked(blocked.peerIds, peerId)
     THEN [failed |-> FALSE, write |-> TRUE,
           data |-> [blocked EXCEPT !.peerIds = Append(@, peerId), !.updatedAt = now]]
     ELSE [failed |-> FALSE, write |-> FALSE, data |-> blocked]

policyUnblockPeer(exists, content, peerId, now) ==
  IF ~exists
  THEN [failed |-> TRUE, write |-> FALSE, data |-> EmptyBlocked]
  ELSE LET index == IndexOf(content.peerIds, peerId)
       IN IF index > 0
          THEN [failed |-> FALSE, write |-> TRUE,
                data |-> [content EXCEPT !.peerIds = Splice(@, index), !.updatedAt = now]]
          ELSE [failed |-> FALSE, write |-> FALSE, data |-> content]

policyHandler(op, exists, content, arg, now) ==
  CASE op = "block-cid"    -> policyBlockCid(exists, content, arg, now)
    [] op = "unblock-cid"  -> policyUnblockCid(exists, content, arg, now)
    [] op = "block-peer"   -> policyBlockPeer(exists, content, arg, now)
    [] op = "unblock-peer" -> policyUnblockPeer(exists, content, arg, now)

\* the path the handler derives from getConfig().dataDir
blockedContentDir == getConfig.dataDir

\* policy:get-blocked-content
policyGetBlockedContent ==
  IF blockedContentDir \in DOMAIN blockedJson
  THEN blockedJson[blockedContentDir]
  ELSE [version |-> 1, updatedAt |-> clock, cids |-> <<>>, peerIds |-> <<>>]

\* the entry a handler adds to or removes from its list
EntryOf(op, arg) == IF op \in {"block-cid", "unblock-cid"} THEN toLowerCase(arg) ELSE arg

IsBlockOp(op) == op \in {"block-cid", "block-peer"}

\* A policy handler from its invocation up to its first write: getConfig(),
\* readFile, JSON.parse, the list update.  It returns here unless it has a
\* record to write; the write is a later step (await fs.mkdir / fs.writeFile).
PolicyCall(s, op, arg) ==
  /\ calls[s].pc = "idle"
  /\ \A t \in Slots : t < s => calls[t].pc # "idle"
  /\ LET dir == blockedContentDir
         exists == dir \in DOMAIN blockedJson
         content == IF exists THEN blockedJson[dir] ELSE EmptyBlocked
         out == policyHandler(op, exists, content, arg, clock)
     IN /\ Len(out.data.cids) <= MaxList
        /\ Len(out.data.peerIds) <= MaxList
        /\ IF out.write
           THEN /\ calls' = [calls EXCEPT ![s] =
                      [pc |-> "write", dir |-> dir, data |-> out.data]]
                /\ UNCHANGED ret
           ELSE /\ ret' = [success |-> ~out.failed,
                           branch |-> IF out.failed THEN "failed"
                                      ELSE IF IsBlockOp(op) THEN "block-noop"
                                      ELSE "unblock-noop"]
                /\ UNCHANGED calls
  /\ UNCHANGED <<env, launch, clock, store, cfgJson, blockedJson>>
  /\ UNCHANGED <<procVars, extVars>>

\* await fs.writeFile(blockedContentPath, JSON.stringify(blocked, null, 2));
\* return { success: true }
PolicyWrite(s) ==
  /\ calls[s].pc = "write"
  /\ blockedJson' = WriteFile(blockedJson, calls[s].dir, calls[s].data)
  /\ calls' = EndCall(calls, s)
  /\ ret' = [success |-> TRUE, branch |-> "wrote"]
  /\ UNCHANGED <<env, launch, clock, store, cfgJson>>
  /\ UNCHANGED <<procVars, extVars>>

\* time passes
Tick ==
  /\ clock < MaxClock
  /\ clock' = clock + 1
  /\ UNCHANGED <<env, launch, store, cfgJson, blockedJson, calls, ret>>
  /\ UNCHANGED <<procVars, extVars>>

\* the application quits and is launched again: the module is loaded anew,
\* suspended handlers are gone, electron-store and the files stay.
Restart ==
  /\ launch < MaxLaunch
  /\ launch' = launch + 1
  /\ calls' = [s \in Slots |-> IdleCall]
  /\ UNCHANGED <<env, clock, store, cfgJson, blockedJson, ret>>
  /\ UNCHANGED <<procVars, extVars>>

NoRet == [success |-> TRUE, branch |-> "none"]

InitData ==
  /\ launch = 0
  /\ clock = 0
  /\ cfgJson = <<>>
  /\ blockedJson = <<>>
  /\ calls = [s \in Slots |-> IdleCall]
  /\ ret = NoRet
  /\ acked = [cids |-> {}, peerIds |-> {}, pending |-> <<>>, saved |-> <<>>, sets |-> 0]

Envs == [multi : BOOLEAN, nodeId : {<<>>, <<"bat-alpha">>}]

NoEnv == [multi |-> FALSE, nodeId |-> <<>>]

\* 'all' or an array of guild ids: [all |-> TRUE, list |-> << >>] is 'all'
AllGuilds == [all |-> TRUE, list |-> <<>>]

\* useState({ allowedGuilds: 'all', blockedGuilds: [] }); the answer of
\* policy:get-guilds when guilds.json does not exist
DefaultGuilds == [allowedGuilds |-> AllGuilds, blockedGuilds |-> <<>>]

\* a config without contentTypes (defaultConfig has none)
undefined == [set |-> FALSE, str |-> <<>>]

\* the Node Policy tab as constructed, no guilds.json
InitGuild ==
  /\ guildConfig = DefaultGuilds
  /\ guildMode = "all"
  /\ guildsJson = <<>>
  /\ contentTypes = undefined

Blobs == {"b1", "b2"}

\* peers are numbered in the lexicographic order of their ids
Peers == 1..NumPeers

\* Replication Factor: fixed at 3 replicas (protocol constant)
replicationFactor == 3

\* the number of other replicas a blob must have before its local copy may go
durabilityFloor == replicationFactor - 1

\* the retention settings a node may be started with; a blob counts one unit
\* of storage, and a reserve of 2 exceeds the max storage of 1
GcConfigs == [mode : {"size", "time", "hybrid"}, maxStorage : {1}, reserved : {0, 2}]

\* nodeShards: [{ start: 0, end: 1023 }]
DefaultShards == <<[start |-> 0, end |-> 1023]>>

NoPut == [result |-> "none", cid |-> "", push |-> FALSE]

\* the content store as started with the default shard ranges, nothing put yet
InitStore ==
  /\ nodeShards = DefaultShards
  /\ putRet = NoPut

\* a storage node that holds nothing and does nothing
InitCore ==
  /\ gcConfig = [mode |-> "hybrid", maxStorage |-> 1, reserved |-> 0]
  /\ stored = {}
  /\ pinned = {}
  /\ aged = {}
  /\ replicaSet = [c \in Blobs |-> {}]
  /\ live = [c \in Blobs |-> {}]
  /\ gcRunning = FALSE
  /\ gcQueue = <<>>
  /\ tickets = EmptyBag
  /\ tried = [c \in Blobs |-> {}]
  /\ retries = [c \in Blobs |-> 0]
  /\ degraded = {}
  /\ unresponsive = {}
  /\ sweep = 0
  /\ coreClock = 0
  /\ InitStore

InitExt == InitGuild /\ InitCore

InitProc ==
  /\ nodeProcess = 0
  /\ nodeRunning = FALSE
  /\ child = [i \in Children |-> "unborn"]
  /\ readyQueued = [i \in Children |-> FALSE]
  /\ exitOnce = [i \in Children |-> 0]
  /\ killTimers = [i \in Children |-> 0]
  /\ startRet = "none"

\* startNode without its early return
StartGuard_NoCheck == TRUE

\* the guard of startNode: if (nodeProcess) return;
StartGuard == nodeProcess = 0

\* startNode(): node:start, tray 'Start Node', auto-start.
StartNode ==
  IF ~StartGuard
  THEN /\ startRet' = "already"
       /\ UNCHANGED <<nodeProcess, nodeRunning, child, readyQueued, exitOnce, killTimers>>
  ELSE /\ \E i \in Children : child[i] = "unborn"
       /\ \E outcome \in {"alive", "spawnfail"} :
            /\ child' = [child EXCEPT ![NextChild] = outcome]
            /\ nodeProcess' = NextChild
       /\ startRet' = "spawned"
       /\ UNCHANGED <<nodeRunning, readyQueued, exitOnce, killTimers>>

\* the child writes 'Server ready' / 'ready for requests' to its stdout
ChildPrintsReady(i) ==
  /\ child[i] = "alive"
  /\ ~readyQueued[i]
  /\ readyQueued' = [readyQueued EXCEPT ![i] = TRUE]
  /\ UNCHANGED <<nodeProcess, nodeRunning, child, exitOnce, killTimers, startRet>>

\* nodeProcess.stdout.on('data'): the pipe may still deliver after 'exit'
OnStdoutData(i) ==
  /\ readyQueued[i]
  /\ readyQueued' = [readyQueued EXCEPT ![i] = FALSE]
  /\ nodeRunning' = TRUE
  /\ UNCHANGED <<nodeProcess, child, exitOnce, killTimers, startRet>>

\* the child terminates (crash, SIGTERM honoured, SIGKILL)
ChildTerminates(i) ==
  /\ child[i] = "alive"
  /\ child' = [child EXCEPT ![i] = "exited"]
  /\ UNCHANGED <<nodeProcess, nodeRunning, readyQueued, exitOnce, killTimers, startRet>>

\* nodeProcess.on('exit') of startNode and every exitHandler stopNode
\* registered with once('exit'): all of them clear the handle and the flag.
OnExit(i) ==
  /\ child[i] = "exited"
  /\ child' = [child EXCEPT ![i] = "gone"]
  /\ nodeProcess' = 0
  /\ nodeRunning' = FALSE
  /\ exitOnce' = [exitOnce EXCEPT ![i] = 0]
  /\ UNCHANGED <<readyQueued, killTimers, startRet>>

\* nodeProcess.on('error'): 'Failed to start bytecave-core'
OnError(i) ==
  /\ child[i] = "spawnfail"
  /\ child' = [child EXCEPT ![i] = "failed"]
  /\ nodeProcess' = 0
  /\ nodeRunning' = FALSE
  /\ UNCHANGED <<readyQueued, exitOnce, killTimers, startRet>>

\* stopNode(): node:stop, tray 'Stop Node', before-quit.  It registers
\* exitHandler with once('exit'), sends SIGTERM (the child may then terminate,
\* see ChildTerminates) and arms the force-kill timer.
StopNode ==
  /\ nodeProcess # 0
  /\ exitOnce[nodeProcess] < MaxStops
  /\ killTimers[nodeProcess] < MaxStops
  /\ exitOnce' = [exitOnce EXCEPT ![nodeProcess] = @ + 1]
  /\ killTimers' = [killTimers EXCEPT ![nodeProcess] = @ + 1]
  /\ UNCHANGED <<nodeProcess, nodeRunning, child, readyQueued, startRet>>

\* a timer that tests the running flag instead of the handle
ForceKillTimer_IfRunning(pid) ==
  /\ killTimers[pid] > 0
  /\ killTimers' = [killTimers EXCEPT ![pid] = @ - 1]
  /\ IF nodeRunning /\ HasPid(pid)
     THEN \E target \in {pid, nodeProcess} :
            child' = IF child[target] = "alive"
                     THEN [child EXCEPT ![target] = "exited"]
                     ELSE child
     ELSE UNCHANGED child
  /\ UNCHANGED <<nodeProcess, nodeRunning, readyQueued, exitOnce, startRet>>

\* the 3 s timer of stopNode; pid was captured when the stop was requested.
\* process.kill(-pid) either reaches the captured child or throws, and the
\* fallback nodeProcess.kill('SIGKILL') goes to the handle held now.
ForceKillTimer(pid) ==
  /\ killTimers[pid] > 0
  /\ killTimers' = [killTimers EXCEPT ![pid] = @ - 1]
  /\ IF nodeProcess # 0 /\ HasPid(pid)
     THEN \E target \in {pid, nodeProcess} :
            child' = IF child[target] = "alive"
                     THEN [child EXCEPT ![target] = "exited"]
                     ELSE child
     ELSE UNCHANGED child
  /\ UNCHANGED <<nodeProcess, nodeRunning, readyQueued, exitOnce, startRet>>

NextProc ==
  /\ \/ StartNode
     \/ StopNode
     \/ \E i \in Children : ChildPrintsReady(i)
     \/ \E i \in Children : OnStdoutData(i)
     \/ \E i \in Children : ChildTerminates(i)
     \/ \E i \in Children : OnExit(i)
     \/ \E i \in Children : OnError(i)
     \/ \E i \in Children : ForceKillTimer(i)
  /\ UNCHANGED <<dataVars, extVars>>

\* a first launch without environment overrides and without saved settings
InitFresh == InitProc /\ InitExt /\ env = NoEnv /\ store = <<>> /\ InitData

SpecProc == InitFresh /\ [][NextProc]_vars

\* What the event loop guarantees: an event that is pending is delivered and
\* an armed timer fires.  Requests of the user and the behaviour of the child
\* (whether it prints, whether it terminates on its own) are not assumed.
FairProc ==
  \A i \in Children :
    /\ WF_vars(OnStdoutData(i) /\ UNCHANGED <<dataVars, extVars>>)
    /\ WF_vars(OnExit(i) /\ UNCHANGED <<dataVars, extVars>>)
    /\ WF_vars(OnError(i) /\ UNCHANGED <<dataVars, extVars>>)
    /\ WF_vars(ForceKillTimer(i) /\ UNCHANGED <<dataVars, extVars>>)

\* the lifecycle steps of the first MaxFairSpawns children
FairLifecycle ==
  /\ \A i \in Children : i > MaxFairSpawns => child[i] = "unborn"
  /\ NextProc

SpecProcFair == InitFresh /\ [][FairLifecycle]_vars /\ FairProc

\* app.on('before-quit', async () => { await stopNode(); }) and the exit of
\* the application.  The listener is not awaited: stopNode runs up to its
\* SIGTERM, then the main process ends, and with it the handle, the event
\* handlers, the force-kill timers and every suspended IPC handler.  The
\* child honours the SIGTERM or is still running when the application is gone.
BeforeQuit ==
  /\ launch < MaxLaunch
  /\ launch' = launch + 1
  /\ \E honoured \in BOOLEAN :
       child' = [i \in Children |->
                   IF child[i] = "exited" THEN "gone"
                   ELSE IF child[i] = "spawnfail" THEN "failed"
                   ELSE IF i = nodeProcess /\ child[i] = "alive" /\ honoured THEN "gone"
                   ELSE child[i]]
  /\ nodeProcess' = 0
  /\ nodeRunning' = FALSE
  /\ readyQueued' = [i \in Children |-> FALSE]
  /\ exitOnce' = [i \in Children |-> 0]
  /\ killTimers' = [i \in Children |-> 0]
  /\ startRet' = "none"
  /\ calls' = [s \in Slots |-> IdleCall]
  /\ UNCHANGED <<env, clock, store, cfgJson, blockedJson, ret, acked>>
  /\ UNCHANGED extVars

NextQuit ==
  \/ NextProc
  \/ BeforeQuit

SpecQuit == InitFresh /\ [][NextQuit]_vars

\* Overlapping policy handlers within one run of the application
NextPolicy ==
  /\ \/ \E s \in Slots, op \in PolicyOps : \E arg \in ArgsOf(op) : PolicyCall(s, op, arg)
     \/ \E s \in Slots : PolicyWrite(s)
     \/ Tick
  /\ UNCHANGED acked

SpecPolicy == InitFresh /\ [][NextPolicy]_vars

\* Overlapping policy:block-cid and policy:block-peer handlers only: no call
\* asks for an entry to be removed
NextOverlap ==
  /\ \/ \E s \in Slots, op \in {"block-cid", "block-peer"} : \E arg \in ArgsOf(op) :
          PolicyCall(s, op, arg)
     \/ \E s \in Slots : PolicyWrite(s)
     \/ Tick
  /\ UNCHANGED acked

SpecOverlap == InitFresh /\ [][NextOverlap]_vars


(***************************************************************************)
(* Blocked-content policy across restarts: one handler at a time, and a    *)
(* record of what callers were told is blocked.                            *)
(***************************************************************************)
\* the nodeConfig a config:set of an earlier launch left in electron-store
SavedStore ==
  [nodeId |-> <<"bytecave", -1>>, dataDir |-> <<<<"bytecave", -1>>>>, port |-> 5001,
   p2pEnabled |-> TRUE, maxStorageMB |-> 1024, shardCount |-> 1024]

SeqArgsOf(op) == IF op \in {"block-cid", "unblock-cid"} THEN MoreCids ELSE PeerIds

AckEntry(a, op, entry) ==
  CASE op = "block-cid"    -> [a EXCEPT !.cids = @ \cup {entry}]
    [] op = "block-peer"   -> [a EXCEPT !.peerIds = @ \cup {entry}]
    [] op = "unblock-cid"  -> [a EXCEPT !.cids = @ \ {entry}]
    [] op = "unblock-peer" -> [a EXCEPT !.peerIds = @ \ {entry}]

SeqPolicyCall(op, arg) ==
  /\ PolicyCall(1, op, arg)
  /\ LET entry == EntryOf(op, arg)
         \* an unblock request withdraws the entry as soon as it is made
         base == IF IsBlockOp(op) THEN acked ELSE AckEntry(acked, op, entry)
     IN acked' = IF calls'[1].pc = "write"
                 THEN [base EXCEPT !.pending = <<op, entry>>]
                 ELSE IF ret'.success /\ IsBlockOp(op)
                 THEN AckEntry(base, op, entry)
                 ELSE base

SeqPolicyWrite ==
  /\ PolicyWrite(1)
  /\ acked' = [(IF IsBlockOp(acked.pending[1])
                THEN AckEntry(acked, acked.pending[1], acked.pending[2])
                ELSE acked) EXCEPT !.pending = <<>>]

SeqRestart ==
  /\ Restart
  /\ acked' = [acked EXCEPT !.pending = <<>>]

NextRestart ==
  \/ \E op \in PolicyOps : \E arg \in SeqArgsOf(op) : SeqPolicyCall(op, arg)
  \/ SeqPolicyWrite
  \/ SeqRestart

\* normal mode (BYTENODE_PORT unset), with or without BYTENODE_NODE_ID, with
\* or without a configuration saved before
InitRestart ==
  /\ InitProc
  /\ InitExt
  /\ env \in {e \in Envs : ~e.multi}
  /\ store \in {<<>>, SavedStore}
  /\ InitData

SpecRestart == InitRestart /\ [][NextRestart]_vars

\* One policy handler at a time within one run of the application
NextSequential ==
  /\ \/ \E op \in PolicyOps : \E arg \in SeqArgsOf(op) : PolicyCall(1, op, arg)
     \/ PolicyWrite(1)
     \/ Tick
  /\ UNCHANGED acked

SpecSequential == InitFresh /\ [][NextSequential]_vars

(***************************************************************************)
(* Node configuration: getConfig, config:get and config:set of             *)
(* src/main/index.ts (electron-store merged with config.json)              *)
(***************************************************************************)
\* fs.readFile + JSON.parse with "let persistedConfig = {}" kept on failure
ReadJson(files, dir) ==
  IF dir \in DOMAIN files /\ files[dir].ok THEN files[dir].data ELSE <<>>

Without(f, keys) == [k \in DOMAIN f \ keys |-> f[k]]

\* if (newConfig.k !== undefined) persistedConfig.k = newConfig.k, for the
\* keys the handler lists; persistedConfig.lastUpdated = Date.now()
UpdateKeys(keys, persisted, newConfig, now) ==
  LET upd == keys \cap DOMAIN newConfig
  IN [k \in DOMAIN persisted \cup upd \cup {"lastUpdated"} |->
        IF k = "lastUpdated" THEN now
        ELSE IF k \in upd THEN newConfig[k]
        ELSE persisted[k]]

\* the settings config:set copies into config.json
SavedKeys == {"nodeId", "port", "maxStorageMB", "shardCount", "ownerAddress", "contentTypes"}

configSetUpdate(persisted, newConfig, now) == UpdateKeys(SavedKeys, persisted, newConfig, now)

\* arguments of config:set
NewConfigs ==
  { [maxStorageMB |-> 2000],
    [shardCount |-> 512, port |-> 5003],
    [nodeId |-> <<"bat-beta">>],
    [dataDir |-> << <<"vault">> >>] }

\* config:get
configGet == getConfig

\* config:set up to its first await: store.set('nodeConfig', {...getConfig(),
\* ...newConfig}), then getConfig() again for the path of config.json.
ConfigSetCall(s, newConfig) ==
  /\ calls[s].pc = "idle"
  /\ \A t \in Slots : t < s => calls[t].pc # "idle"
  /\ LET saved  == Merge(getConfig, newConfig)
         config == getConfigOf(saved, cfgJson)
     IN /\ Len(config.dataDir) <= MaxDepth
        /\ acked.sets < MaxSets
        /\ store' = saved
        /\ calls' = [calls EXCEPT ![s] =
              [pc |-> "cfg-read", dir |-> config.dataDir, data |-> <<>>, arg |-> newConfig]]
  /\ acked' = [acked EXCEPT !.saved = Without(@, DOMAIN newConfig), !.sets = @ + 1]
  /\ UNCHANGED <<env, launch, clock, cfgJson, blockedJson, ret>>
  /\ UNCHANGED <<procVars, extVars>>

\* await fs.readFile(configJsonPath), JSON.parse, the updates and lastUpdated
ConfigSetRead(s) ==
  /\ calls[s].pc = "cfg-read"
  /\ calls' = [calls EXCEPT ![s] =
        [pc |-> "cfg-write", dir |-> calls[s].dir, arg |-> calls[s].arg,
         data |-> configSetUpdate(ReadJson(cfgJson, calls[s].dir), calls[s].arg, clock)]]
  /\ UNCHANGED <<env, launch, clock, store, cfgJson, blockedJson, ret, acked>>
  /\ UNCHANGED <<procVars, extVars>>

\* await fs.mkdir, await fs.writeFile(configJsonPath, ...); return { success: true }
ConfigSetWrite(s) ==
  /\ calls[s].pc = "cfg-write"
  /\ cfgJson' = WriteFile(cfgJson, calls[s].dir, [ok |-> TRUE, data |-> calls[s].data])
  /\ calls' = EndCall(calls, s)
  /\ ret' = [success |-> TRUE, branch |-> "config:set"]
  /\ acked' = [acked EXCEPT !.saved = Merge(@, calls[s].arg)]
  /\ UNCHANGED <<env, launch, clock, store, blockedJson>>
  /\ UNCHANGED <<procVars, extVars>>

\* config.json as bytecave-core or an earlier session may have left it:
\* unparsable (data is what the text held before it was cut short), or
\* holding settings
CoreFiles ==
  { [ok |-> FALSE, data |-> [maxStorageMB |-> 512]],
    [ok |-> TRUE, data |-> [maxStorageMB |-> 512, shardCount |-> 256, lastUpdated |-> 0]] }

\* a desktop launch without overrides, and an instance of the multi-instance
\* test script (BYTENODE_PORT and BYTENODE_NODE_ID set)
ConfigEnvs == {NoEnv, [multi |-> TRUE, nodeId |-> <<"bat-alpha">>]}

\* any mode, with or without a configuration saved before, with or without
\* a config.json in the data directory
InitConfig ==
  /\ InitProc
  /\ InitExt
  /\ env \in ConfigEnvs
  /\ store \in {<<>>, SavedStore}
  /\ launch = 0
  /\ clock = 0
  /\ cfgJson \in {<<>>} \cup
        {[d \in {getConfigOf(store, <<>>).dataDir} |-> f] : f \in CoreFiles}
  /\ blockedJson = <<>>
  /\ calls = [s \in Slots |-> IdleCall]
  /\ ret = NoRet
  /\ acked = [cids |-> {}, peerIds |-> {}, pending |-> <<>>, saved |-> <<>>, sets |-> 0]

\* the calls of one instant: Date.now() is the same for all of them
NextConfig ==
  \/ \E s \in Slots, newConfig \in NewConfigs : ConfigSetCall(s, newConfig)
  \/ \E s \in Slots : ConfigSetRead(s)
  \/ \E s \in Slots : ConfigSetWrite(s)

SpecConfig == InitConfig /\ [][NextConfig]_vars

(***************************************************************************)
(* Node configuration of the config.json-backed main process: getConfig    *)
(* reads the defaults and config.json only, config:set writes config.json  *)
(* only.                                                                   *)
(***************************************************************************)
\* const envNodeId = process.env.BYTENODE_NODE_ID || 'bat-alpha'
envNodeIdJson == IF env.nodeId # <<>> THEN env.nodeId ELSE <<"bat-alpha">>

defaultConfigJson ==
  [nodeId |-> envNodeIdJson, dataDir |-> <<envNodeIdJson>>, port |-> envPort,
   p2pEnabled |-> TRUE, maxStorageMB |-> 1024, shardCount |-> 1024]

\* getConfig(): config = {...config, ...persistedConfig, dataDir: config.dataDir}
getConfigJsonOf(files) ==
  LET dir    == WithNodeIdFolder(defaultConfigJson.dataDir, defaultConfigJson.nodeId)
      config == [defaultConfigJson EXCEPT !.dataDir = dir]
  IN IF dir \in DOMAIN files /\ files[dir].ok
     THEN [k \in DOMAIN config \cup DOMAIN files[dir].data |->
             IF k = "dataDir" THEN dir
             ELSE IF k \in DOMAIN files[dir].data THEN files[dir].data[k]
             ELSE config[k]]
     ELSE config

getConfigJson == getConfigJsonOf(cfgJson)

\* the settings config:set copies into config.json
SavedKeysJson ==
  {"nodeId", "port", "maxStorageMB", "shardCount", "ownerAddress",
   "gcEnabled", "gcVerifyReplicas", "gcVerifyProofs"}

configSetUpdateJson(persisted, newConfig, now) ==
  UpdateKeys(SavedKeysJson, persisted, newConfig, now)

NewConfigsJson ==
  { [maxStorageMB |-> 2000],
    [maxStorageMB |-> 4096, port |-> 5003],
    [nodeId |-> <<"bat-beta">>],
    [dataDir |-> << <<"vault">> >>],
    [gcEnabled |-> TRUE, gcVerifyReplicas |-> TRUE, gcVerifyProofs |-> TRUE],
    [gcVerifyReplicas |-> FALSE],
    [gcVerifyProofs |-> FALSE] }

\* config:set up to its first await: getConfig() for the path of config.json
ConfigSetJsonCall(s, newConfig) ==
  /\ calls[s].pc = "idle"
  /\ \A t \in Slots : t < s => calls[t].pc # "idle"
  /\ acked.sets < MaxSets
  /\ calls' = [calls EXCEPT ![s] =
        [pc |-> "cfgjson-read", dir |-> getConfigJson.dataDir, data |-> <<>>,
         arg |-> newConfig]]
  /\ acked' = [acked EXCEPT !.saved = Without(@, DOMAIN newConfig), !.sets = @ + 1]
  /\ UNCHANGED <<env, launch, clock, store, cfgJson, blockedJson, ret>>
  /\ UNCHANGED <<procVars, extVars>>

\* await fs.readFile(configJsonPath), JSON.parse, the updates and lastUpdated
ConfigSetJsonRead(s) ==
  /\ calls[s].pc = "cfgjson-read"
  /\ calls' = [calls EXCEPT ![s] =
        [pc |-> "cfg-write", dir |-> calls[s].dir, arg |-> calls[s].arg,
         data |-> configSetUpdateJson(ReadJson(cfgJson, calls[s].dir), calls[s].arg, clock)]]
  /\ UNCHANGED <<env, launch, clock, store, cfgJson, blockedJson, ret, acked>>
  /\ UNCHANGED <<procVars, extVars>>

\* config.json as bytecave-core creates it
CoreFilesJson ==
  { [ok |-> FALSE, data |-> <<>>],
    [ok |-> TRUE, data |-> [maxStorageMB |-> 512, gcVerifyReplicas |-> TRUE,
                            gcVerifyProofs |-> TRUE, lastUpdated |-> 0]] }

InitConfigJson ==
  /\ InitProc
  /\ InitExt
  /\ env \in Envs
  /\ store = <<>>
  /\ launch = 0
  /\ clock = 0
  /\ cfgJson \in {<<>>} \cup
        {[d \in {getConfigJsonOf(<<>>).dataDir} |-> f] : f \in CoreFilesJson}
  /\ blockedJson = <<>>
  /\ calls = [s \in Slots |-> IdleCall]
  /\ ret = NoRet
  /\ acked = [cids |-> {}, peerIds |-> {}, pending |-> <<>>, saved |-> <<>>, sets |-> 0]

NextConfigJson ==
  \/ \E s \in Slots, newConfig \in NewConfigsJson : ConfigSetJsonCall(s, newConfig)
  \/ \E s \in Slots : ConfigSetJsonRead(s)
  \/ \E s \in Slots : ConfigSetWrite(s)
  \/ Tick /\ UNCHANGED acked

SpecConfigJson == InitConfigJson /\ [][NextConfigJson]_vars

(***************************************************************************)
(* HTTP/status bridge: node:status, node:peers and node:deregister ask the *)
(* running node over HTTP.  What the node answers is an input.             *)
(***************************************************************************)
\* the fetch rejected (connection refused, reset)
NoResponse == [net |-> FALSE, ok |-> FALSE, json |-> FALSE, body |-> <<>>]

\* answers to GET /health: net = the fetch resolved, ok = response.ok,
\* json = response.json() resolves to body
HealthResponses ==
  { NoResponse,
    [net |-> TRUE, ok |-> TRUE, json |-> TRUE,
     body |-> [status |-> "healthy", peerId |-> <<"12D3">>]],
    [net |-> TRUE, ok |-> TRUE, json |-> TRUE, body |-> [status |-> "starting"]],
    [net |-> TRUE, ok |-> TRUE, json |-> FALSE, body |-> <<>>],
    [net |-> TRUE, ok |-> FALSE, json |-> TRUE, body |-> [status |-> "unavailable"]],
    [net |-> TRUE, ok |-> FALSE, json |-> FALSE, body |-> <<>>] }

\* answers to GET /peers
PeersResponses ==
  { NoResponse,
    [net |-> TRUE, ok |-> TRUE, json |-> TRUE, body |-> [peers |-> <<<<"P", "1">>>>]],
    [net |-> TRUE, ok |-> TRUE, json |-> TRUE, body |-> [count |-> 0]],
    [net |-> TRUE, ok |-> TRUE, json |-> FALSE, body |-> <<>>],
    [net |-> TRUE, ok |-> FALSE, json |-> TRUE, body |-> [error |-> "unavailable"]],
    [net |-> TRUE, ok |-> FALSE, json |-> TRUE, body |-> [peers |-> <<<<"P", "1">>>>]],
    [net |-> TRUE, ok |-> FALSE, json |-> FALSE, body |-> <<>>] }

NotResponding == [running |-> nodeRunning, error |-> "Node not responding"]

\* getNodeStatus() after its fetch settled
statusOf(resp) ==
  IF resp.net /\ resp.ok /\ resp.json
  THEN Merge([running |-> TRUE], resp.body)
  ELSE NotResponding

\* node:peers after its fetch settled: data.peers || [], [] from the catch
peersOf(resp) ==
  IF resp.net /\ resp.json /\ "peers" \in DOMAIN resp.body
  THEN resp.body.peers
  ELSE <<>>

\* an invocation suspended at its fetch
FetchCall(pc) == [pc |-> pc, dir |-> <<>>, data |-> EmptyBlocked]

\* node:status up to the await of fetch; ret.value is what the invocation
\* resolved with
StatusCall(s) ==
  /\ calls[s].pc = "idle"
  /\ \A t \in Slots : t < s => calls[t].pc # "idle"
  /\ IF ~nodeRunning
     THEN /\ ret' = [success |-> TRUE, branch |-> "node:status",
                     value |-> [running |-> FALSE]]
          /\ UNCHANGED calls
     ELSE /\ calls' = [calls EXCEPT ![s] = FetchCall("status-fetch")]
          /\ UNCHANGED ret
  /\ UNCHANGED <<env, launch, clock, store, cfgJson, blockedJson, acked>>
  /\ UNCHANGED <<procVars, extVars>>

StatusReturn(s, resp) ==
  /\ calls[s].pc = "status-fetch"
  /\ calls' = EndCall(calls, s)
  /\ ret' = [success |-> TRUE, branch |-> "node:status", value |-> statusOf(resp)]
  /\ UNCHANGED <<env, launch, clock, store, cfgJson, blockedJson, acked>>
  /\ UNCHANGED <<procVars, extVars>>

\* node:peers up to the await of fetch
PeersCall(s) ==
  /\ calls[s].pc = "idle"
  /\ \A t \in Slots : t < s => calls[t].pc # "idle"
  /\ IF ~nodeRunning
     THEN /\ ret' = [success |-> TRUE, branch |-> "node:peers", value |-> <<>>]
          /\ UNCHANGED calls
     ELSE /\ calls' = [calls EXCEPT ![s] = FetchCall("peers-fetch")]
          /\ UNCHANGED ret
  /\ UNCHANGED <<env, launch, clock, store, cfgJson, blockedJson, acked>>
  /\ UNCHANGED <<procVars, extVars>>

PeersReturn(s, resp) ==
  /\ calls[s].pc = "peers-fetch"
  /\ calls' = EndCall(calls, s)
  /\ ret' = [success |-> TRUE, branch |-> "node:peers", value |-> peersOf(resp)]
  /\ UNCHANGED <<env, launch, clock, store, cfgJson, blockedJson, acked>>
  /\ UNCHANGED <<procVars, extVars>>

\* what the rest of node:deregister meets: VAULT_REGISTRY_ADDRESS or
\* PRIVATE_KEY unset, the node unknown to the registry, the transaction
\* confirmed, the transaction reverted
ChainOutcomes == {"no-registry", "no-key", "not-registered", "confirmed", "reverted"}

\* node:deregister after its health fetch settled
deregisterOf(resp, chain) ==
  IF ~(resp.net /\ resp.json)
  THEN [success |-> FALSE, branch |-> "node:deregister", error |-> "fetch failed"]
  ELSE IF "peerId" \notin DOMAIN resp.body
  THEN [success |-> FALSE, branch |-> "node:deregister",
        error |-> "Could not get peer ID from node"]
  ELSE CASE chain = "no-registry" ->
              [success |-> FALSE, branch |-> "node:deregister",
               error |-> "VAULT_REGISTRY_ADDRESS not configured"]
         [] chain = "no-key" ->
              [success |-> FALSE, branch |-> "node:deregister",
               error |-> "No wallet private key configured (PRIVATE_KEY env var)"]
         [] chain = "reverted" ->
              [success |-> FALSE, branch |-> "node:deregister", error |-> "reverted"]
         [] OTHER ->
              [success |-> TRUE, branch |-> "node:deregister", error |-> ""]

\* node:deregister up to the await of fetch
DeregisterCall(s) ==
  /\ calls[s].pc = "idle"
  /\ \A t \in Slots : t < s => calls[t].pc # "idle"
  /\ IF ~nodeRunning
     THEN /\ ret' = [success |-> FALSE, branch |-> "node:deregister",
                     error |-> "Node is not running"]
          /\ UNCHANGED calls
     ELSE /\ calls' = [calls EXCEPT ![s] = FetchCall("deregister-fetch")]
          /\ UNCHANGED ret
  /\ UNCHANGED <<env, launch, clock, store, cfgJson, blockedJson, acked>>
  /\ UNCHANGED <<procVars, extVars>>

DeregisterReturn(s, resp, chain) ==
  /\ calls[s].pc = "deregister-fetch"
  /\ calls' = EndCall(calls, s)
  /\ ret' = deregisterOf(resp, chain)
  /\ UNCHANGED <<env, launch, clock, store, cfgJson, blockedJson, acked>>
  /\ UNCHANGED <<procVars, extVars>>

\* answers to POST /peers/connect
ConnectResponses ==
  { NoResponse,
    [net |-> TRUE, ok |-> TRUE, json |-> TRUE, body |-> [success |-> TRUE]],
    [net |-> TRUE, ok |-> FALSE, json |-> TRUE,
     body |-> [success |-> FALSE, error |-> "dial failed"]],
    [net |-> TRUE, ok |-> FALSE, json |-> FALSE, body |-> <<>>] }

NotRunning == [success |-> FALSE, error |-> "Node not running"]

\* peer:connect after its fetch settled: the parsed body, or the message of
\* what fetch or response.json() threw
peerConnectOf(resp) ==
  IF resp.net /\ resp.json
  THEN resp.body
  ELSE [success |-> FALSE, error |-> "fetch failed"]

\* peer:connect up to the await of fetch
PeerConnectCall(s) ==
  /\ calls[s].pc = "idle"
  /\ \A t \in Slots : t < s => calls[t].pc # "idle"
  /\ IF ~nodeRunning
     THEN /\ ret' = [success |-> FALSE, branch |-> "peer:connect", value |-> NotRunning]
          /\ UNCHANGED calls
     ELSE /\ calls' = [calls EXCEPT ![s] = FetchCall("connect-fetch")]
          /\ UNCHANGED ret
  /\ UNCHANGED <<env, launch, clock, store, cfgJson, blockedJson, acked>>
  /\ UNCHANGED <<procVars, extVars>>

PeerConnectReturn(s, resp) ==
  /\ calls[s].pc = "connect-fetch"
  /\ calls' = EndCall(calls, s)
  /\ ret' = [success |-> peerConnectOf(resp).success, branch |-> "peer:connect",
             value |-> peerConnectOf(resp)]
  /\ UNCHANGED <<env, launch, clock, store, cfgJson, blockedJson, acked>>
  /\ UNCHANGED <<procVars, extVars>>

\* the node's lifecycle together with the calls that ask it
\* the lifecycle steps of the first MaxBridgeSpawns children
BridgeProc ==
  /\ \A i \in Children : i > MaxBridgeSpawns => child[i] = "unborn"
  /\ NextProc

NextBridge ==
  \/ BridgeProc
  \/ \E s \in Slots : StatusCall(s)
  \/ \E s \in Slots : \E resp \in HealthResponses : StatusReturn(s, resp)
  \/ \E s \in Slots : PeersCall(s)
  \/ \E s \in Slots : \E resp \in PeersResponses : PeersReturn(s, resp)
  \/ \E s \in Slots : PeerConnectCall(s)
  \/ \E s \in Slots : \E resp \in ConnectResponses : PeerConnectReturn(s, resp)
  \/ \E s \in Slots : DeregisterCall(s)
  \/ \E s \in Slots : \E resp \in HealthResponses : \E chain \in ChainOutcomes :
       DeregisterReturn(s, resp, chain)

SpecBridge == InitFresh /\ [][NextBridge]_vars

(***************************************************************************)
(* node:reset of the config.json-backed main process                       *)
(***************************************************************************)
\* node:reset up to its first await: await stopNode() when nodeRunning (the
\* call returns at once when no handle is held), await import('fs/promises')
\* otherwise
ResetCall(s) ==
  /\ calls[s].pc = "idle"
  /\ \A t \in Slots : t < s => calls[t].pc # "idle"
  /\ IF nodeRunning /\ nodeProcess # 0
     THEN /\ exitOnce[nodeProcess] < MaxStops
          /\ killTimers[nodeProcess] < MaxStops
          /\ exitOnce' = [exitOnce EXCEPT ![nodeProcess] = @ + 1]
          /\ killTimers' = [killTimers EXCEPT ![nodeProcess] = @ + 1]
          /\ calls' = [calls EXCEPT ![s] = FetchCall("reset-stop")]
     ELSE /\ calls' = [calls EXCEPT ![s] = FetchCall("reset-rm")]
          /\ UNCHANGED <<exitOnce, killTimers>>
  /\ UNCHANGED <<nodeProcess, nodeRunning, child, readyQueued, startRet>>
  /\ UNCHANGED <<env, launch, clock, store, cfgJson, blockedJson, ret, acked>>
  /\ UNCHANGED extVars

\* the stopNode promise resolved (every exitHandler has run) and the
\* 1 s wait is over
ResetStopped(s) ==
  /\ calls[s].pc = "reset-stop"
  /\ \A i \in Children : exitOnce[i] = 0
  /\ calls' = [calls EXCEPT ![s] = FetchCall("reset-rm")]
  /\ UNCHANGED <<env, launch, clock, store, cfgJson, blockedJson, ret, acked>>
  /\ UNCHANGED <<procVars, extVars>>

\* fs.rm(dataDir, { recursive: true, force: true }), the directories are
\* made again, store.clear(), return { success: true }
ResetRm(s) ==
  /\ calls[s].pc = "reset-rm"
  /\ LET dataDir == getConfigJson.dataDir
     IN /\ cfgJson' = Without(cfgJson, {dataDir})
        /\ blockedJson' = Without(blockedJson, {dataDir})
        /\ guildsJson' = Without(guildsJson, {dataDir})
  /\ store' = <<>>
  /\ calls' = EndCall(calls, s)
  /\ ret' = [success |-> TRUE, branch |-> "node:reset"]
  /\ UNCHANGED <<env, launch, clock, acked>>
  /\ UNCHANGED <<procVars, guildConfig, guildMode, contentTypes, coreVars>>

NextReset ==
  \/ BridgeProc
  \/ \E s \in Slots : ResetCall(s)
  \/ \E s \in Slots : ResetStopped(s)
  \/ \E s \in Slots : ResetRm(s)

SpecReset == InitFresh /\ [][NextReset]_vars

(***************************************************************************)
(* Guild policy: policy:get-guilds, policy:set-guilds and the guild        *)
(* handlers of renderer/NodePolicyTab.tsx.  One handler runs at a time.    *)
(***************************************************************************)
\* String.prototype.trim on a sequence of characters
trim(str) ==
  LET solid == {i \in 1..Len(str) : str[i] # " "}
  IN IF solid = {}
     THEN <<>>
     ELSE LET first == CHOOSE i \in solid : \A j \in solid : i <= j
              last  == CHOOSE i \in solid : \A j \in solid : j <= i
          IN SubSeq(str, first, last)

\* what the user may have typed into the guild id field
GuildInputs == {<<>>, <<" ">>, <<"7">>, <<" ", "7">>, <<"9">>}

GuildModes == {"all", "allowlist", "blocklist"}

\* path.join(config.dataDir, 'config', 'guilds.json'), named by its directory
guildsDir == getConfig.dataDir

\* policy:get-guilds
policyGetGuilds == IF guildsDir \in DOMAIN guildsJson THEN guildsJson[guildsDir] ELSE DefaultGuilds

\* policy:set-guilds: mkdir and writeFile of the argument as given; wrote is
\* whether they succeeded ({success: false} otherwise)
policySetGuilds(guildsConfig, wrote) ==
  IF wrote THEN WriteFile(guildsJson, guildsDir, guildsConfig) ELSE guildsJson

\* Array.prototype.filter(id => id !== guildId)
FilterOut(list, guildId) == SelectSeq(list, LAMBDA id : id # guildId)

\* loadGuildConfig(), run when the tab is mounted
LoadGuildConfig ==
  LET guilds == policyGetGuilds
  IN /\ guildConfig' = guilds
     /\ guildMode' = IF guilds.allowedGuilds.all
                     THEN IF Len(guilds.blockedGuilds) > 0 THEN "blocklist" ELSE "all"
                     ELSE "allowlist"
     /\ UNCHANGED <<guildsJson, contentTypes>>
     /\ UNCHANGED <<procVars, dataVars, coreVars>>

\* handleGuildModeChange(mode)
GuildModeChange(mode, wrote) ==
  LET newConfig ==
        CASE mode = "all" -> DefaultGuilds
          [] mode = "allowlist" ->
               [allowedGuilds |-> [all |-> FALSE, list |-> <<>>], blockedGuilds |-> <<>>]
          [] OTHER ->
               [allowedGuilds |-> AllGuilds, blockedGuilds |-> guildConfig.blockedGuilds]
  IN /\ guildMode' = mode
     /\ guildsJson' = policySetGuilds(newConfig, wrote)
     /\ guildConfig' = newConfig
     /\ UNCHANGED contentTypes
     /\ UNCHANGED <<procVars, dataVars, coreVars>>

\* the configuration handleAddGuild sends and keeps: the trimmed id is pushed
\* to the list of the current mode
addGuild(config, mode, newGuildId) ==
  IF mode = "allowlist"
  THEN IF ~config.allowedGuilds.all
       THEN [config EXCEPT !.allowedGuilds.list = Append(@, trim(newGuildId))]
       ELSE config
  ELSE IF mode = "blocklist"
  THEN [config EXCEPT !.blockedGuilds = Append(@, trim(newGuildId))]
  ELSE config

\* handleAddGuild()
AddGuild(newGuildId, wrote) ==
  /\ trim(newGuildId) # <<>>
  /\ LET newConfig == addGuild(guildConfig, guildMode, newGuildId)
     IN /\ Len(newConfig.allowedGuilds.list) <= MaxList
        /\ Len(newConfig.blockedGuilds) <= MaxList
        /\ guildsJson' = policySetGuilds(newConfig, wrote)
        /\ guildConfig' = newConfig
  /\ UNCHANGED <<guildMode, contentTypes>>
  /\ UNCHANGED <<procVars, dataVars, coreVars>>

\* handleRemoveGuild(guildId, list), from the remove button of a listed id
RemoveGuild(guildId, list, wrote) ==
  /\ IF list = "allowed"
     THEN Includes(guildConfig.allowedGuilds.list, guildId)
     ELSE Includes(guildConfig.blockedGuilds, guildId)
  /\ LET newConfig ==
           IF list = "allowed"
           THEN IF ~guildConfig.allowedGuilds.all
                THEN [guildConfig EXCEPT !.allowedGuilds.list = FilterOut(@, guildId)]
                ELSE guildConfig
           ELSE [guildConfig EXCEPT !.blockedGuilds = FilterOut(@, guildId)]
     IN /\ guildsJson' = policySetGuilds(newConfig, wrote)
        /\ guildConfig' = newConfig
  /\ UNCHANGED <<guildMode, contentTypes>>
  /\ UNCHANGED <<procVars, dataVars, coreVars>>

NextGuild ==
  \/ LoadGuildConfig
  \/ \E mode \in GuildModes : \E wrote \in BOOLEAN : GuildModeChange(mode, wrote)
  \/ \E newGuildId \in GuildInputs : \E wrote \in BOOLEAN : AddGuild(newGuildId, wrote)
  \/ \E guildId \in {trim(g) : g \in GuildInputs} : \E list \in {"allowed", "blocked"} :
       \E wrote \in BOOLEAN : RemoveGuild(guildId, list, wrote)

SpecGuild == InitFresh /\ [][NextGuild]_vars

(***************************************************************************)
(* Content types: the checkboxes of renderer/NodePolicyTab.tsx.  A string  *)
(* is the sequence of its tokens: a type name, "all", or the comma.        *)
(***************************************************************************)
AllTypes == <<"messages", "posts", "media", "listings">>

all == <<"all">>

\* String.prototype.split(','): the pieces between the commas, one (empty)
\* piece for the empty string
RECURSIVE split(_)
split(str) ==
  IF \A i \in 1..Len(str) : str[i] # ","
  THEN <<str>>
  ELSE LET comma == CHOOSE i \in 1..Len(str) :
                      str[i] = "," /\ \A j \in 1..(i - 1) : str[j] # ","
       IN <<SubSeq(str, 1, comma - 1)>> \o split(SubSeq(str, comma + 1, Len(str)))

\* Array.prototype.join(','): the empty string for the empty array
RECURSIVE join(_)
join(types) ==
  IF types = <<>> THEN <<>>
  ELSE IF Len(types) = 1 THEN types[1]
  ELSE types[1] \o <<",">> \o join(Tail(types))

\* config.contentTypes || 'all': undefined and the empty string are falsy
currentTypesOf(ct) == IF ct.set /\ ct.str # <<>> THEN ct.str ELSE all

\* isContentTypeEnabled(type), ct being config.contentTypes
isContentTypeEnabled(ct, type) ==
  IF currentTypesOf(ct) = all THEN TRUE
  ELSE Includes(split(currentTypesOf(ct)), <<type>>)

\* the contentTypes string handleContentTypeChange(type, checked) hands to
\* onConfigChange
handleContentTypeChange(ct, type, checked) ==
  LET start == IF currentTypesOf(ct) = all
               THEN [i \in 1..4 |-> <<AllTypes[i]>>]
               ELSE split(currentTypesOf(ct))
      types == IF checked
               THEN IF ~Includes(start, <<type>>) THEN Append(start, <<type>>) ELSE start
               ELSE SelectSeq(start, LAMBDA t : t # <<type>>)
  IN IF Len(types) = 4 THEN all ELSE join(types)

\* a checkbox is clicked; onConfigChange stores the configuration it is given
ContentTypeChange(type, checked) ==
  /\ contentTypes' = [set |-> TRUE, str |-> handleContentTypeChange(contentTypes, type, checked)]
  /\ UNCHANGED <<guildConfig, guildMode, guildsJson>>
  /\ UNCHANGED <<procVars, dataVars, coreVars>>

\* the configuration the tab is given when it is mounted: no contentTypes,
\* 'all', or the list of all four types
StartTypes ==
  {undefined, [set |-> TRUE, str |-> all], [set |-> TRUE, str |-> join([i \in 1..4 |-> <<AllTypes[i]>>])]}

InitTab ==
  /\ InitProc
  /\ InitCore
  /\ env = NoEnv
  /\ store = <<>>
  /\ InitData
  /\ guildConfig = DefaultGuilds
  /\ guildMode = "all"
  /\ guildsJson = <<>>
  /\ contentTypes \in StartTypes

\* the controls of the Node Policy tab
NextTab ==
  \/ \E i \in 1..4, checked \in BOOLEAN : ContentTypeChange(AllTypes[i], checked)
  \/ LoadGuildConfig
  \/ \E mode \in GuildModes : \E wrote \in BOOLEAN : GuildModeChange(mode, wrote)

SpecTab == InitTab /\ [][NextTab]_vars

(***************************************************************************)
(* Policy filter of the storage node: isAllowed over the blocked-content   *)
(* and guild records the application writes.  One handler runs at a time.  *)
(***************************************************************************)
\* the guild ids content may be tagged with
GuildIds == {trim(g) : g \in GuildInputs}

\* the CIDs a request may name: as typed and as stored
FilterCids == Cids \cup {toLowerCase(c) : c \in Cids}

\* the mode a guild record stands for: guilds.json holds no mode field
guildModeOf(guilds) ==
  IF guilds.allowedGuilds.all
  THEN IF Len(guilds.blockedGuilds) > 0 THEN "blocklist" ELSE "all"
  ELSE "allowlist"

\* the guild rule of a mode over a guild record
guildRule(mode, guilds, guildId) ==
  CASE mode = "all" -> TRUE
    [] mode = "allowlist" -> Includes(guilds.allowedGuilds.list, guildId)
    [] OTHER -> ~Includes(guilds.blockedGuilds, guildId)

\* a filter that evaluates the guild mode only
isAllowed_GuildOnly(cid, peerId, guildId) ==
  guildRule(guildModeOf(policyGetGuilds), policyGetGuilds, guildId)

\* isAllowed(CID, peerId, guildId)
isAllowed(cid, peerId, guildId) ==
  IF Includes(policyGetBlockedContent.cids, cid)
       \/ Includes(policyGetBlockedContent.peerIds, peerId)
  THEN FALSE
  ELSE guildRule(guildModeOf(policyGetGuilds), policyGetGuilds, guildId)

\* the guild handlers and the blocked-content handlers; a mode change may fail
\* to reach guilds.json, the list edits considered are the ones that reach it
NextFilter ==
  \/ LoadGuildConfig
  \/ \E mode \in GuildModes : \E wrote \in BOOLEAN : GuildModeChange(mode, wrote)
  \/ \E newGuildId \in GuildInputs : AddGuild(newGuildId, TRUE)
  \/ \E guildId \in GuildIds : \E list \in {"allowed", "blocked"} :
       RemoveGuild(guildId, list, TRUE)
  \/ /\ \/ \E op \in PolicyOps : \E arg \in ArgsOf(op) : PolicyCall(1, op, arg)
        \/ PolicyWrite(1)
     /\ UNCHANGED acked

SpecFilter == InitFresh /\ [][NextFilter]_vars

(***************************************************************************)
(* Garbage collector of the storage node: one cycle builds the eviction    *)
(* candidate list, then looks at one candidate per step while pins and     *)
(* remote replicas change underneath it.                                   *)
(***************************************************************************)
\* the blobs from least to most recently accessed
BlobOrder == <<"b1", "b2">>

\* current usage, one unit per blob
usage == Cardinality(stored)

\* storage must be reclaimed: usage > (max storage - reserved-for-pinned);
\* with a reserve above the max storage this holds whenever a blob is stored
OverSize == usage > gcConfig.maxStorage - gcConfig.reserved

\* step 1: whether the cycle has anything to do under the retention mode
NeedsCycle ==
  CASE gcConfig.mode = "size" -> OverSize
    [] gcConfig.mode = "time" -> stored \cap aged # {}
    [] OTHER -> OverSize \/ stored \cap aged # {}

\* a candidate list built from every blob that could free storage
evictionCandidates_WithPinned ==
  SelectSeq(BlobOrder, LAMBDA c :
    c \in stored /\ (gcConfig.mode = "time" => c \in aged))

\* step 2: the eviction candidate list, all non-pinned blobs (those past the
\* max age under time mode), least recently accessed first
evictionCandidates ==
  SelectSeq(BlobOrder, LAMBDA c :
    c \in stored /\ c \notin pinned /\ (gcConfig.mode = "time" => c \in aged))

\* step 2, per candidate: past the max age, or storage must be reclaimed
Eligible(c) ==
  CASE gcConfig.mode = "size" -> OverSize
    [] gcConfig.mode = "time" -> c \in aged
    [] OTHER -> c \in aged \/ OverSize

\* a replica check answered from the metadata record's replica set
verifyReplicas_Cached(c) ==
  IF Cardinality(replicaSet[c]) >= durabilityFloor
  THEN {"confirmed", "unverifiable"}
  ELSE {"unverifiable"}

\* step 3: what the Replication Manager may answer for a candidate; it
\* confirms only when probes sent now find the durability floor number of
\* other replicas
verifyReplicas(c) ==
  IF Cardinality(live[c]) >= durabilityFloor
  THEN {"confirmed", "unverifiable"}
  ELSE {"unverifiable"}

\* Content Store delete(CID) -> ok | Protected
contentStoreDelete(c, answer) ==
  IF c \in pinned \/ answer # "confirmed" THEN "Protected" ELSE "ok"

\* steps 1 and 2 of a cycle
GcStart ==
  /\ ~gcRunning
  /\ NeedsCycle
  /\ gcRunning' = TRUE
  /\ gcQueue' = evictionCandidates
  /\ UNCHANGED <<gcConfig, stored, pinned, aged, replicaSet, live>>
  /\ UNCHANGED <<procVars, dataVars, guildVars, replVars, storeVars>>

\* steps 3 and 4 for the next candidate
GcCheck(answer) ==
  /\ gcRunning
  /\ gcQueue # <<>>
  /\ LET c == Head(gcQueue)
     IN /\ answer \in verifyReplicas(c)
        /\ stored' = IF Eligible(c) /\ contentStoreDelete(c, answer) = "ok"
                     THEN stored \ {c}
                     ELSE stored
  /\ gcQueue' = Tail(gcQueue)
  /\ UNCHANGED <<gcConfig, pinned, aged, replicaSet, live, gcRunning>>
  /\ UNCHANGED <<procVars, dataVars, guildVars, replVars, storeVars>>

\* the candidates are exhausted
GcEnd ==
  /\ gcRunning
  /\ gcQueue = <<>>
  /\ gcRunning' = FALSE
  /\ UNCHANGED <<gcConfig, stored, pinned, aged, replicaSet, live, gcQueue>>
  /\ UNCHANGED <<procVars, dataVars, guildVars, replVars, storeVars>>

\* the pin flag of a stored blob is set or cleared
Pin(c) ==
  /\ c \in stored
  /\ c \notin pinned
  /\ pinned' = pinned \cup {c}
  /\ UNCHANGED <<gcConfig, stored, aged, replicaSet, live, gcRunning, gcQueue>>
  /\ UNCHANGED <<procVars, dataVars, guildVars, replVars, storeVars>>

Unpin(c) ==
  /\ c \in pinned
  /\ pinned' = pinned \ {c}
  /\ UNCHANGED <<gcConfig, stored, aged, replicaSet, live, gcRunning, gcQueue>>
  /\ UNCHANGED <<procVars, dataVars, guildVars, replVars, storeVars>>

\* a peer of the replica set loses its copy or becomes unreachable; the
\* metadata record is not told
ReplicaLost(c, p) ==
  /\ p \in live[c]
  /\ live' = [live EXCEPT ![c] = @ \ {p}]
  /\ UNCHANGED <<gcConfig, stored, pinned, aged, replicaSet, gcRunning, gcQueue>>
  /\ UNCHANGED <<procVars, dataVars, guildVars, replVars, storeVars>>

\* the peer is reachable again with its copy
ReplicaBack(c, p) ==
  /\ p \in replicaSet[c] \ live[c]
  /\ live' = [live EXCEPT ![c] = @ \cup {p}]
  /\ UNCHANGED <<gcConfig, stored, pinned, aged, replicaSet, gcRunning, gcQueue>>
  /\ UNCHANGED <<procVars, dataVars, guildVars, replVars, storeVars>>

\* a node started with any retention settings; it holds every blob, each
\* replicated to the first durabilityFloor peers, and some are past the max age
InitGC ==
  /\ InitProc
  /\ InitGuild
  /\ env = NoEnv
  /\ store = <<>>
  /\ InitData
  /\ gcConfig \in GcConfigs
  /\ stored = Blobs
  /\ pinned = {}
  /\ aged \in SUBSET Blobs
  /\ replicaSet = [c \in Blobs |-> 1..durabilityFloor]
  /\ live = replicaSet
  /\ gcRunning = FALSE
  /\ gcQueue = <<>>
  /\ tickets = EmptyBag
  /\ tried = [c \in Blobs |-> {}]
  /\ retries = [c \in Blobs |-> 0]
  /\ degraded = {}
  /\ unresponsive = {}
  /\ sweep = 0
  /\ coreClock = 0
  /\ InitStore

NextGC ==
  \/ GcStart
  \/ \E answer \in {"confirmed", "unverifiable"} : GcCheck(answer)
  \/ GcEnd
  \/ \E c \in Blobs : Pin(c)
  \/ \E c \in Blobs : Unpin(c)
  \/ \E c \in Blobs : \E p \in Peers : ReplicaLost(c, p)
  \/ \E c \in Blobs : \E p \in Peers : ReplicaBack(c, p)

SpecGC == InitGC /\ [][NextGC]_vars

(***************************************************************************)
(* Replication manager of the storage node: sweeps open tickets for        *)
(* under-replicated blobs; a ticket ends by the peer's acknowledgement or  *)
(* by its timeout.  Reputation is left out: candidates are ordered by peer *)
(* id alone.                                                               *)
(***************************************************************************)
\* Replication Timeout (ms), default 5000: one tick of coreClock
ReplicationTimeout == 1

\* the peers a push of blob c is in flight to
InFlight(c) == {t.peer : t \in {u \in BagToSet(tickets) : u.cid = c}}

\* the replicas still to be asked for, counting only acknowledged ones
needed_IgnoreInFlight(c) == durabilityFloor - Cardinality(replicaSet[c])

\* the replicas still to be asked for: the replication factor less this
\* node's copy, the acknowledged replicas and the pushes in flight
needed(c) == durabilityFloor - Cardinality(replicaSet[c]) - Cardinality(InFlight(c))

\* candidates that may be holding a ticket already
candidates_WithInFlight(c) == Peers \ (replicaSet[c] \cup tried[c])

\* the peers a new ticket for c may go to: not a replica holder, not a peer
\* a push of this sweep failed against, not the target of a ticket in flight
candidates(c) == Peers \ (replicaSet[c] \cup tried[c] \cup InFlight(c))

\* selectReplicationTargets(CID, n): up to n candidates, lowest peer id first
selectReplicationTargets(c, n) ==
  {p \in candidates(c) : Cardinality({q \in candidates(c) : q < p}) < n}

\* Replication Ticket: target blob CID, target peer, attempt count, deadline
Tickets ==
  [cid : Blobs, peer : Peers, attempt : 1..(MaxRetries + 1),
   deadline : 0..(MaxCoreClock + ReplicationTimeout)]

\* one ticket per target
OpenedTickets(c, targets) ==
  SetToBag({[cid |-> c, peer |-> p, attempt |-> retries[c] + 1,
             deadline |-> coreClock + ReplicationTimeout] : p \in targets})

\* the ticket is destroyed
DropTicket(t) == tickets (-) SetToBag({t})

\* a retry count that is never used up
Exhausted_Never(c) == FALSE

\* the bounded retry count of blob c is used up
Exhausted(c) == retries[c] >= MaxRetries

\* the periodic sweep begins: Degraded blobs are looked at again
SweepStart ==
  /\ sweep < MaxSweeps
  /\ sweep' = sweep + 1
  /\ tried' = [c \in Blobs |-> {}]
  /\ retries' = [c \in Blobs |-> 0]
  /\ degraded' = {}
  /\ UNCHANGED <<tickets, unresponsive, coreClock>>
  /\ UNCHANGED <<procVars, dataVars, guildVars, gcVars, storeVars>>

\* Under-replicated: select targets, open a ticket per target, push the blob
OpenTickets(c) ==
  /\ sweep > 0
  /\ c \in stored
  /\ c \notin degraded
  /\ needed(c) > 0
  /\ LET targets == selectReplicationTargets(c, needed(c))
     IN /\ targets # {}
        /\ tickets' = tickets (+) OpenedTickets(c, targets)
  /\ UNCHANGED <<tried, retries, degraded, unresponsive, sweep, coreClock>>
  /\ UNCHANGED <<procVars, dataVars, guildVars, gcVars, storeVars>>

\* on ack: the peer enters the metadata record's replica set
Ack(t) ==
  /\ t \in BagToSet(tickets)
  /\ t.peer \notin unresponsive
  /\ replicaSet' = [replicaSet EXCEPT ![t.cid] = @ \cup {t.peer}]
  /\ live' = [live EXCEPT ![t.cid] = @ \cup {t.peer}]
  /\ tickets' = DropTicket(t)
  /\ UNCHANGED <<gcConfig, stored, pinned, aged, gcRunning, gcQueue>>
  /\ UNCHANGED <<tried, retries, degraded, unresponsive, sweep, coreClock>>
  /\ UNCHANGED <<procVars, dataVars, guildVars, storeVars>>

\* the deadline of a ticket passes without an answer: the ticket is marked
\* failed; the push is retried elsewhere or the blob is marked Degraded
Timeout(t) ==
  /\ t \in BagToSet(tickets)
  /\ t.peer \in unresponsive
  /\ coreClock >= t.deadline
  /\ tickets' = DropTicket(t)
  /\ tried' = [tried EXCEPT ![t.cid] = @ \cup {t.peer}]
  /\ IF Exhausted(t.cid)
     THEN /\ degraded' = degraded \cup {t.cid}
          /\ UNCHANGED retries
     ELSE /\ retries' = [retries EXCEPT ![t.cid] = @ + 1]
          /\ UNCHANGED degraded
  /\ UNCHANGED <<unresponsive, sweep, coreClock>>
  /\ UNCHANGED <<procVars, dataVars, guildVars, gcVars, storeVars>>

\* time passes once every ticket that is due has been answered or has
\* timed out
CoreTick ==
  /\ coreClock < MaxCoreClock
  /\ \A t \in BagToSet(tickets) : t.deadline > coreClock
  /\ coreClock' = coreClock + 1
  /\ UNCHANGED <<tickets, tried, retries, degraded, unresponsive, sweep>>
  /\ UNCHANGED <<procVars, dataVars, guildVars, gcVars, storeVars>>

\* every peer answers; the first candidate does not; so many of the first
\* candidates do not that the retries of a blob are used up
UnresponsiveSets == {{}, {1}, 1..(MaxRetries + 1)}

\* node A holds every blob, no peer holds a copy yet, all peers are
\* connected and some may not answer
InitRepl ==
  /\ InitProc
  /\ InitGuild
  /\ env = NoEnv
  /\ store = <<>>
  /\ InitData
  /\ gcConfig = [mode |-> "hybrid", maxStorage |-> 1, reserved |-> 0]
  /\ stored = Blobs
  /\ pinned = {}
  /\ aged = {}
  /\ replicaSet = [c \in Blobs |-> {}]
  /\ live = [c \in Blobs |-> {}]
  /\ gcRunning = FALSE
  /\ gcQueue = <<>>
  /\ tickets = EmptyBag
  /\ tried = [c \in Blobs |-> {}]
  /\ retries = [c \in Blobs |-> 0]
  /\ degraded = {}
  /\ unresponsive \in UnresponsiveSets
  /\ sweep = 0
  /\ coreClock = 0
  /\ InitStore

NextRepl ==
  \/ SweepStart
  \/ \E c \in Blobs : OpenTickets(c)
  \/ \E t \in Tickets : Ack(t)
  \/ \E t \in Tickets : Timeout(t)
  \/ CoreTick

SpecRepl == InitRepl /\ [][NextRepl]_vars

(***************************************************************************)
(* The storage node: put of the content store behind the shard router,     *)
(* as the design document describes them                                   *)
(***************************************************************************)
\* the payloads a caller may hand to put, named by the CID put computes
Payloads == Blobs \cup {"b9"}

\* Max Blob Size (MB), default 10
maxBlobSizeMB == 10

\* the size of a payload in MB: "b9" is larger than the max blob size
sizeMB(payload) == IF payload = "b9" THEN maxBlobSizeMB + 1 ELSE 1

\* the hash of a CID
hash(cid) ==
  CASE cid = "b1" -> defaultConfig.shardCount + 300
    [] cid = "b2" -> 2 * defaultConfig.shardCount + 100
    [] OTHER      -> 700

\* shardOf(CID) = hash(CID) mod shardCount
shardOf(cid) == hash(cid) % defaultConfig.shardCount

\* isResponsible(CID)
isResponsible(cid) ==
  \E i \in 1..Len(nodeShards) :
    nodeShards[i].start <= shardOf(cid) /\ shardOf(cid) <= nodeShards[i].end

\* the shard ranges a node may be started with: the default, the example of
\* the settings panel, and two separate ranges
NodeShardSets ==
  {DefaultShards,
   <<[start |-> 0, end |-> 255]>>,
   <<[start |-> 0, end |-> 127], [start |-> 256, end |-> 511]>>}

\* a put that makes the shard-range check for replication pushes too
put_CheckPushes(payload, push) ==
  IF sizeMB(payload) > maxBlobSizeMB
  THEN [result |-> "SizeExceeded", cid |-> payload, store |-> stored]
  ELSE IF ~isResponsible(payload)
  THEN [result |-> "NotResponsible", cid |-> payload, store |-> stored]
  ELSE [result |-> "ok", cid |-> payload, store |-> stored \cup {payload}]

\* put(payload); push: the request arrived as an explicit replication push
put(payload, push) ==
  IF sizeMB(payload) > maxBlobSizeMB
  THEN [result |-> "SizeExceeded", cid |-> payload, store |-> stored]
  ELSE IF ~isResponsible(payload) /\ ~push
  THEN [result |-> "NotResponsible", cid |-> payload, store |-> stored]
  ELSE [result |-> "ok", cid |-> payload, store |-> stored \cup {payload}]

Put(payload, push) ==
  LET out == put(payload, push)
  IN /\ stored' = out.store
     /\ putRet' = [result |-> out.result, cid |-> out.cid, push |-> push]
     /\ UNCHANGED <<gcConfig, pinned, aged, replicaSet, live, gcRunning, gcQueue>>
     /\ UNCHANGED nodeShards
     /\ UNCHANGED <<procVars, dataVars, guildVars, replVars>>

\* a node started with any of the shard range settings and an empty store
InitPut ==
  /\ InitProc
  /\ InitGuild
  /\ env = NoEnv
  /\ store = <<>>
  /\ InitData
  /\ gcConfig = [mode |-> "hybrid", maxStorage |-> 1, reserved |-> 0]
  /\ stored = {}
  /\ pinned = {}
  /\ aged = {}
  /\ replicaSet = [c \in Blobs |-> {}]
  /\ live = [c \in Blobs |-> {}]
  /\ gcRunning = FALSE
  /\ gcQueue = <<>>
  /\ tickets = EmptyBag
  /\ tried = [c \in Blobs |-> {}]
  /\ retries = [c \in Blobs |-> 0]
  /\ degraded = {}
  /\ unresponsive = {}
  /\ sweep = 0
  /\ coreClock = 0
  /\ nodeShards \in NodeShardSets
  /\ putRet = NoPut

NextPut ==
  \/ \E payload \in Payloads : \E push \in BOOLEAN : Put(payload, push)
  \/ \E c \in Blobs : Pin(c)
  \/ \E c \in Blobs : Unpin(c)

SpecPut == InitPut /\ [][NextPut]_vars

(***************************************************************************)
(* Claims about the blocked-content policy                                 *)
(***************************************************************************)
NoDuplicates(list) == \A i, j \in 1..Len(list) : i # j => list[i] # list[j]

\* the blocked-content record stored for the current data directory
Stored == IF blockedContentDir \in DOMAIN blockedJson
          THEN blockedJson[blockedContentDir]
          ELSE EmptyBlocked

\* C2: blocking is idempotent: policy:block-cid(c) with c (lower-cased)
\* already in cids, and policy:block-peer(p) with p already in peerIds,
\* return success and leave both lists unchanged; no list ever holds a
\* duplicate entry.
C2_BlockIdempotent ==
  /\ [][\A s \in Slots :
          /\ \A c \in Cids :
               (PolicyCall(s, "block-cid", c) /\ Includes(Stored.cids, toLowerCase(c)))
                 => (ret'.success /\ blockedJson' = blockedJson /\ calls' = calls)
          /\ \A q \in PeerIds :
               (PolicyCall(s, "block-peer", q) /\ Includes(Stored.peerIds, q))
                 => (ret'.success /\ blockedJson' = blockedJson /\ calls' = calls)]_vars
  /\ [](\A d \in DOMAIN blockedJson :
          NoDuplicates(blockedJson[d].cids) /\ NoDuplicates(blockedJson[d].peerIds))

\* a block request for an entry already present returned success while both
\* peers and a CID were blocked
C2_Witness ==
  /\ ret.branch = "block-noop"
  /\ ret.success
  /\ Len(Stored.cids) = 1
  /\ Len(Stored.peerIds) = 2

\* C3 as stated: every successful policy:block-cid / policy:block-peer call,
\* also one whose entry was already blocked, leaves a stored updatedAt later
\* than the one stored before it.
C3_UpdatedAtAlwaysAdvances ==
  [][\A s \in Slots, op \in {"block-cid", "block-peer"} : \A arg \in ArgsOf(op) :
       (PolicyCall(s, op, arg) /\ ret'.branch = "block-noop" /\ calls' = calls)
         => Stored'.updatedAt > Stored.updatedAt]_vars

\* C3 as amended: a block call that adds an entry stores the Date.now() it
\* sampled as updatedAt; a block call whose entry is already blocked writes
\* nothing, so updatedAt stays as it was.
C3_UpdatedAtOnlyOnChange ==
  [][\A s \in Slots :
       /\ \A op \in {"block-cid", "block-peer"} : \A arg \in ArgsOf(op) :
            PolicyCall(s, op, arg) =>
              IF Includes(IF op = "block-cid" THEN Stored.cids ELSE Stored.peerIds,
                          EntryOf(op, arg))
              THEN blockedJson' = blockedJson /\ calls' = calls
              ELSE calls'[s].pc = "write" /\ calls'[s].data.updatedAt = clock
       /\ PolicyWrite(s) =>
            blockedJson'[calls[s].dir].updatedAt = calls[s].data.updatedAt]_vars

\* entries were stored, and a block request for an entry already present
\* returned at a later time than the stored updatedAt
C3_Witness ==
  /\ ret.branch = "block-noop"
  /\ blockedContentDir \in DOMAIN blockedJson
  /\ Len(Stored.cids) + Len(Stored.peerIds) > 1
  /\ clock > Stored.updatedAt

\* C4: version and updatedAt of the stored blocked-content policy never
\* decrease (the clock never runs backwards).
C4_VersionAndUpdatedAtMonotonic ==
  [][\A d \in DOMAIN blockedJson :
       /\ blockedJson'[d].updatedAt >= blockedJson[d].updatedAt
       /\ blockedJson'[d].version >= blockedJson[d].version]_vars

\* C5: policy:unblock-cid / policy:unblock-peer for an entry that is not
\* blocked, also when no blocked-content file exists, returns success and
\* leaves both lists unchanged.
C5_UnblockIdempotent ==
  [][\A s \in Slots, op \in {"unblock-cid", "unblock-peer"} : \A arg \in ArgsOf(op) :
       (PolicyCall(s, op, arg)
          /\ ~Includes(IF op = "unblock-cid" THEN Stored.cids ELSE Stored.peerIds,
                       EntryOf(op, arg)))
         => (ret'.success /\ blockedJson' = blockedJson /\ calls' = calls)]_vars

\* C6: an entry that a block call reported as blocked is returned by
\* policy:get-blocked-content until it is unblocked, restarts included.
C6_BlockedIsDurable ==
  /\ \A c \in acked.cids : Includes(policyGetBlockedContent.cids, c)
  /\ \A q \in acked.peerIds : Includes(policyGetBlockedContent.peerIds, q)


(***************************************************************************)
(* Claims about the node configuration                                     *)
(***************************************************************************)
\* C7: after any config:set calls, no persisted configuration holds
\* gcVerifyReplicas = false or gcVerifyProofs = false.
C7_GcVerificationNeverDisabled ==
  \A d \in DOMAIN cfgJson : \A k \in {"gcVerifyReplicas", "gcVerifyProofs"} :
    (cfgJson[d].ok /\ k \in DOMAIN cfgJson[d].data) => cfgJson[d].data[k] = TRUE

\* C8, for normal mode (BYTENODE_PORT unset) and the settings other than the
\* data directory: once config:set({s: v}) has returned and no config:set of
\* s was invoked since, config:get returns s = v.
C8_SettingsPersist ==
  ~env.multi =>
    \A k \in DOMAIN acked.saved \ {"dataDir"} :
      k \in DOMAIN configGet /\ configGet[k] = acked.saved[k]

\* C9: the write of a config:set leaves every key that config.json held and
\* that is not in the call's argument at its value; only lastUpdated is
\* refreshed besides.
C9_PartialSetKeepsOtherKeys ==
  [][\A s \in Slots :
       (ConfigSetWrite(s) /\ calls[s].dir \in DOMAIN cfgJson /\ cfgJson[calls[s].dir].ok)
         => \A k \in DOMAIN cfgJson[calls[s].dir].data \ ({"lastUpdated"} \cup DOMAIN calls[s].arg) :
              /\ k \in DOMAIN cfgJson'[calls[s].dir].data
              /\ cfgJson'[calls[s].dir].data[k] = cfgJson[calls[s].dir].data[k]]_vars

\* C10, for normal mode (BYTENODE_PORT unset): when config.json and
\* electron-store hold different values for a setting, config:get returns
\* the value of config.json.
C10_ConfigJsonIsSourceOfTruth ==
  LET dir == configGet.dataDir
  IN (~env.multi /\ dir \in DOMAIN cfgJson /\ cfgJson[dir].ok) =>
       \A k \in DOMAIN cfgJson[dir].data \cap DOMAIN store :
         cfgJson[dir].data[k] # store[k] => configGet[k] = cfgJson[dir].data[k]

\* C11: config:set writes settings to config.json only: electron-store
\* holds the same after a config:set call as before it.
C11_ConfigSetLeavesStoreAlone ==
  [][\A s \in Slots : \A newConfig \in NewConfigs :
       ConfigSetCall(s, newConfig) => store' = store]_vars

\* a setting config.json does not supply: the file is missing, is not valid
\* JSON, or lacks the field
NotSupplied(dir, k) ==
  \/ dir \notin DOMAIN cfgJson
  \/ ~cfgJson[dir].ok
  \/ k \notin DOMAIN cfgJson[dir].data

\* the value a setting falls back to: electron-store's if one is stored,
\* otherwise the built-in default; "none" when neither has the field
FallbackOf(k) ==
  IF k \in DOMAIN store THEN store[k]
  ELSE IF k \in DOMAIN defaultConfig THEN defaultConfig[k]
  ELSE "none"

ValueIn(cfg, k) == IF k \in DOMAIN cfg THEN cfg[k] ELSE "none"

C12_BridgeFailuresAreValues ==
  [][/\ \A s \in Slots :
          StatusCall(s) /\ ~nodeRunning => ret'.value = [running |-> FALSE]
     /\ \A s \in Slots : \A resp \in HealthResponses :
          StatusReturn(s, resp) /\ ~(resp.net /\ resp.ok) => ret'.value = NotResponding
     /\ \A s \in Slots :
          PeersCall(s) /\ ~nodeRunning => ret'.value = <<>>
     /\ \A s \in Slots : \A resp \in PeersResponses :
          PeersReturn(s, resp) /\ ~(resp.net /\ resp.ok) => ret'.value = <<>>]_vars

\* C15: once the node has been stopped (it was started, and now there is
\* no child process and it is not marked running), node:deregister does not
\* fail with 'Node is not running'.
C15_DeregisterAfterStop ==
  [][\A s \in Slots :
       (/\ DeregisterCall(s)
        /\ \E i \in Children : child[i] \in {"exited", "gone"}
        /\ nodeProcess = 0
        /\ ~nodeRunning) =>
         ret' # [success |-> FALSE, branch |-> "node:deregister",
                 error |-> "Node is not running"]]_vars

\* the guild configuration stored in guilds.json
StoredGuilds == policyGetGuilds

\* the list an added id goes to in the current mode
ModeList ==
  IF guildMode = "allowlist" THEN guildConfig.allowedGuilds.list
  ELSE IF guildMode = "blocklist" THEN guildConfig.blockedGuilds
  ELSE <<>>

\* C14: adding a guild id that is already on the list of the current mode
\* leaves guilds.json unchanged, and no list stored in guilds.json ever
\* holds the same guild id twice.
C14_GuildEditsIdempotent ==
  /\ [][\A newGuildId \in GuildInputs : \A wrote \in BOOLEAN :
          AddGuild(newGuildId, wrote) /\ Includes(ModeList, trim(newGuildId))
            => guildsJson' = guildsJson]_vars
  /\ [](/\ NoDuplicates(StoredGuilds.allowedGuilds.list)
        /\ NoDuplicates(StoredGuilds.blockedGuilds))

\* C16: a GC cycle deletes a blob only when probes sent at that moment find
\* at least replicationFactor - 1 other replicas, and a candidate for which
\* the Replication Manager answers "unverifiable" is not deleted.
C16_DurabilityFloor ==
  [][/\ \A c \in Blobs :
          c \in stored /\ c \notin stored' => Cardinality(live[c]) >= replicationFactor - 1
     /\ GcCheck("unverifiable") => stored' = stored]_vars

\* a cycle is over in which one blob was deleted and another, unpinned and
\* eligible, was kept because its replicas could not be confirmed
C16_Witness ==
  /\ ~gcRunning
  /\ \E c \in Blobs : c \notin stored
  /\ \E d \in stored \ pinned : Eligible(d) /\ Cardinality(live[d]) < replicationFactor - 1

\* C17: under every retention mode and storage pressure, a reserve above
\* the max storage included, a GC cycle neither puts a blob whose pin flag
\* is set on its candidate list nor deletes one.
C17_PinnedNeverEvicted ==
  [][/\ GcStart => \A i \in 1..Len(gcQueue') : gcQueue'[i] \notin pinned
     /\ \A c \in Blobs : c \in stored /\ c \notin stored' => c \notin pinned]_vars

\* the reserve exceeds the max storage, a cycle has deleted a blob, and a
\* pinned blob is still stored
C17_Witness ==
  /\ gcConfig.reserved > gcConfig.maxStorage
  /\ \E c \in Blobs : c \notin stored
  /\ stored \cap pinned # {}

\* the tickets in flight for blob c to peer p, each counted as often as the
\* bag holds it
TicketsTo(c, p) ==
  BagCardinality([t \in {u \in BagToSet(tickets) : u.cid = c /\ u.peer = p} |-> tickets[t]])

\* C18: at any time at most one replication ticket is in flight for a
\* (CID, target peer) pair.
C18_OneTicketPerCidAndPeer ==
  \A c \in Blobs : \A p \in Peers : TicketsTo(c, p) <= 1

\* in a second sweep, after a push of it failed, a blob has tickets in
\* flight to two peers, one of which also holds a ticket for another blob
C18_Witness ==
  /\ sweep = 2
  /\ \E c \in Blobs : \E p, q \in Peers :
       /\ tried[c] # {}
       /\ p # q
       /\ TicketsTo(c, p) = 1
       /\ TicketsTo(c, q) = 1
       /\ \E d \in Blobs \ {c} : TicketsTo(d, p) = 1

\* nothing is left for the sweep to do: no ticket is in flight and no blob
\* can be given a new one
SweepSettled ==
  /\ sweep > 0
  /\ tickets = EmptyBag
  /\ \A c \in stored : ~ENABLED OpenTickets(c)

\* C19: no blob ever has more than replicationFactor - 1 peers holding an
\* acknowledged copy (replicationFactor copies with node A's own), and when
\* every peer answers, a sweep that has settled leaves each blob with
\* exactly replicationFactor - 1 such peers.
C19_Convergence ==
  /\ \A c \in stored : Cardinality(replicaSet[c]) <= replicationFactor - 1
  /\ (unresponsive = {} /\ SweepSettled) =>
       \A c \in stored : Cardinality(replicaSet[c]) = replicationFactor - 1

\* every peer answers and the first sweep has settled: two peers hold each
\* blob
C19_Witness ==
  /\ unresponsive = {}
  /\ Cardinality(Peers) >= 5
  /\ sweep = 1
  /\ SweepSettled
  /\ \A c \in Blobs : c \in stored /\ Cardinality(replicaSet[c]) = 2

GuildModeNow(mode) ==
  \/ mode = guildModeOf(policyGetGuilds)
  \/ policyGetGuilds = guildConfig /\ mode = guildMode

\* C21: isAllowed is false whenever the CID is on the blocked-CID list or the
\* peer is on the blocked-peer list, whatever the guild mode; otherwise it is
\* true in mode all, true exactly when the guild is on the allow list in mode
\* allowlist, and true exactly when the guild is not on the block list in
\* mode blocklist.
C21_IsAllowed ==
  \A cid \in FilterCids : \A peerId \in PeerIds : \A guildId \in GuildIds :
    IF Includes(Stored.cids, cid) \/ Includes(Stored.peerIds, peerId)
    THEN ~isAllowed(cid, peerId, guildId)
    ELSE \A mode \in GuildModes : GuildModeNow(mode) =>
           isAllowed(cid, peerId, guildId) =
             CASE mode = "all" -> TRUE
               [] mode = "allowlist" -> Includes(StoredGuilds.allowedGuilds.list, guildId)
               [] OTHER -> ~Includes(StoredGuilds.blockedGuilds, guildId)

\* a peer is blocked while the guild rule alone would let the request pass,
\* and the tab's blocklist mode is stored with a guild on the list
C21_Witness ==
  /\ Includes(Stored.peerIds, <<"P", "1">>)
  /\ ~Includes(Stored.peerIds, <<"p", "1">>)
  /\ guildMode = "blocklist"
  /\ StoredGuilds = guildConfig
  /\ Includes(StoredGuilds.blockedGuilds, <<"7">>)
  /\ ~isAllowed(<<"q", "a">>, <<"P", "1">>, <<"9">>)
  /\ isAllowed(<<"q", "a">>, <<"p", "1">>, <<"9">>)
  /\ ~isAllowed(<<"q", "a">>, <<"p", "1">>, <<"7">>)

C23_TimerKillsOnlyItsChild ==
  [][\A pid \in Children :
       ForceKillTimer(pid) =>
         \A i \in Children : (child[i] = "alive" /\ child'[i] # "alive") => i = pid]_vars

\* C24: whenever the node is marked running a child process handle is held:
\* nodeRunning = true implies nodeProcess is not null.
C24_RunningImpliesHandle == nodeRunning => nodeProcess # 0

\* the held child has not delivered its exit (or error) event yet
HeldChildLives == nodeProcess # 0 /\ child[nodeProcess] \in {"alive", "exited"}

\* C25: the node is marked running only between the child's ready message
\* and its exit.  The flag is set only while a spawned child is held whose
\* exit has not been delivered; a spawn leaves the node not running; while
\* not running, node:status answers {running: false}, node:peers answers []
\* and peer:connect answers {success: false, error: 'Node not running'}, none
\* of them starting a fetch; every 'exit' and 'error' event leaves the node
\* not running.
C25_RunningOnlyBetweenReadyAndExit ==
  /\ [](nodeRunning => HeldChildLives)
  /\ [][(StartNode /\ startRet' = "spawned") => ~nodeRunning']_vars
  /\ [][\A s \in Slots :
          /\ (StatusCall(s) /\ ~nodeRunning) =>
               (ret'.value = [running |-> FALSE] /\ calls' = calls)
          /\ (PeersCall(s) /\ ~nodeRunning) => (ret'.value = <<>> /\ calls' = calls)
          /\ (PeerConnectCall(s) /\ ~nodeRunning) =>
               (ret'.value = NotRunning /\ calls' = calls)]_vars
  /\ [][\A i \in Children : (OnExit(i) \/ OnError(i)) => ~nodeRunning']_vars

C28_StartNeverDropped ==
  [][(StartNode /\ startRet' = "already" /\ HasPid(nodeProcess)) =>
       (child[nodeProcess] = "alive" /\ exitOnce[nodeProcess] = 0)]_vars

\* C29: node:reset never deletes the data directory while a child spawned by
\* the application is alive.
C29_ResetStopsChildFirst ==
  [][\A s \in Slots : ResetRm(s) => \A i \in Children : child[i] # "alive"]_vars

\* C30: when the application quits, the child node process is terminated: no
\* child spawned by the application is still running once it has exited.
C30_QuitTerminatesChild ==
  [][BeforeQuit => \A i \in Children : child'[i] # "alive"]_vars

(***************************************************************************)
(* Claims about overlapping mutations                                      *)
(***************************************************************************)
\* C31: mutations are not lost under concurrency: when policy:block-cid and
\* policy:block-peer calls overlap and each returns success, the stored
\* blocked-content file reflects all of them, i.e. (no call removing
\* anything) the write of one call never drops an entry that the write of
\* another call has stored.
C31_NoLostUpdate ==
  [][\A s \in Slots :
       PolicyWrite(s) =>
         /\ Range(Stored.cids) \subseteq Range(Stored'.cids)
         /\ Range(Stored.peerIds) \subseteq Range(Stored'.peerIds)]_vars

(***************************************************************************)
(* Claims about the content-type checkboxes                                *)
(***************************************************************************)
\* C32: content-type toggles take effect: after handleContentTypeChange(t,
\* checked) isContentTypeEnabled(t) equals checked, the enabled state of the
\* other three types is unchanged, and contentTypes is 'all' exactly when
\* all four types are enabled.
C32_TogglesTakeEffect ==
  [][\A i \in 1..4, checked \in BOOLEAN :
       ContentTypeChange(AllTypes[i], checked) =>
         /\ isContentTypeEnabled(contentTypes', AllTypes[i]) = checked
         /\ \A j \in 1..4 \ {i} :
              isContentTypeEnabled(contentTypes', AllTypes[j])
                = isContentTypeEnabled(contentTypes, AllTypes[j])
         /\ (contentTypes'.str = all) <=> (\A j \in 1..4 : isContentTypeEnabled(contentTypes', AllTypes[j]))]_vars

(***************************************************************************)
(* Claims about the guild mode                                             *)
(***************************************************************************)
\* C33: the guild mode chosen in the policy tab survives a reload: for each
\* mode, once handleGuildModeChange(mode) has persisted its configuration
\* through policy:set-guilds, policy:get-guilds returns that configuration
\* and loadGuildConfig derives the same mode from it.
C33_GuildModeSurvivesReload ==
  [][\A mode \in GuildModes :
       GuildModeChange(mode, TRUE) =>
         /\ policyGetGuilds' = guildConfig'
         /\ guildModeOf(policyGetGuilds') = mode]_vars

(***************************************************************************)
(* Claims about letter case in the blocked-content policy                  *)
(***************************************************************************)
UpperCaseLetters == {"Q", "P", "A", "B"}

IsLowerCase(str) == \A i \in 1..Len(str) : str[i] \notin UpperCaseLetters

Front(list) == SubSeq(list, 1, Len(list) - 1)

\* C34: blocked CIDs are case-normalised and peer ids are not.  Every stored
\* CID is lower-case; policy:block-cid(c) of a CID not blocked appends c
\* lower-cased, and policy:unblock-cid(c2) for any c2 that differs from c in
\* letter case only then removes that entry, so the list is the one before
\* the block.  policy:block-peer stores the id as given, also next to an id
\* that differs in case only, and policy:unblock-peer of an id that is
\* stored only in another case removes nothing.
C34_CidsCaseNormalised ==
  /\ [](\A d \in DOMAIN blockedJson : \A i \in 1..Len(blockedJson[d].cids) :
          IsLowerCase(blockedJson[d].cids[i]))
  /\ [][/\ \A c \in MoreCids :
           (PolicyCall(1, "block-cid", c) /\ ~Includes(Stored.cids, toLowerCase(c)))
             => /\ calls'[1].pc = "write"
                /\ calls'[1].data.cids = Append(Stored.cids, toLowerCase(c))
                /\ IsLowerCase(calls'[1].data.cids[Len(Stored.cids) + 1])
        /\ \A c, c2 \in MoreCids :
           (/\ PolicyCall(1, "unblock-cid", c2)
            /\ toLowerCase(c) = toLowerCase(c2)
            /\ blockedContentDir \in DOMAIN blockedJson
            /\ Len(Stored.cids) > 0
            /\ Stored.cids[Len(Stored.cids)] = toLowerCase(c)
            /\ ~Includes(Front(Stored.cids), toLowerCase(c)))
             => /\ calls'[1].pc = "write"
                /\ calls'[1].data.cids = Front(Stored.cids)
        /\ PolicyWrite(1) => blockedJson'[calls[1].dir] = calls[1].data
        /\ \A q \in PeerIds :
           (PolicyCall(1, "block-peer", q) /\ ~Includes(Stored.peerIds, q))
             => /\ calls'[1].pc = "write"
                /\ calls'[1].data.peerIds = Append(Stored.peerIds, q)
        /\ \A q \in PeerIds :
           (PolicyCall(1, "unblock-peer", q) /\ ~Includes(Stored.peerIds, q))
             => (calls' = calls /\ blockedJson' = blockedJson)]_vars

\* a CID was blocked and unblocked again (the file exists and its CID list
\* is empty after a write) while a peer id is stored in both cases
C34_Witness ==
  /\ ret.branch = "wrote"
  /\ blockedContentDir \in DOMAIN blockedJson
  /\ Stored.cids = <<>>
  /\ Stored.peerIds = << <<"P", "1">>, <<"p", "1">> >>

====
